---------------------------- MODULE Spec2Model ----------------------------
(***************************************************************************)
(* Model of the e-commerce warehouse ETL (extract -> transform -> load).   *)
(*                                                                         *)
(*   main.py                       the run: dim_rider, dim_user,            *)
(*                                 dim_product, dim_date, fact_sales        *)
(*   etl/extract.py                extract_from_db                          *)
(*   etl/transform/fact_sales.py   transform_fact_sales and its helpers     *)
(*   etl/transform/dim_*.py        the dimension transformers               *)
(*   etl/transform/utils.py        parse_date_formats, standardize_gender   *)
(*   etl/load.py                   load_to_warehouse                        *)
(*                                                                          *)
(* A DataFrame is a sequence of rows (records); the pandas index label of   *)
(* a row is kept in its field idx.  A cell is a value record: null          *)
(* (None/NaN/NaT), a number (an exact rational n/d standing for the float)  *)
(* or a string (a sequence of one-character strings).                       *)
(***************************************************************************)
EXTENDS Integers, Sequences, FiniteSets, TLC

VARIABLES
    pc,              \* position of the run inside main.py
    env,             \* the environment variables that are set, and whether
                     \* the warehouse server can fail a statement
    source_db,       \* the OLTP source tables
    source_df,       \* local source_df of the table function being run
    transformed_df,  \* local transformed_df of the table function being run
    warehouse,       \* the warehouse tables as committed
    outcome,         \* per table: how its load_to_warehouse call ended
    previous_run,    \* the runs of main that returned, and what the last left
    app              \* the dashboard: its engine, query cache and last call

vars == <<pc, env, source_db, source_df, transformed_df, warehouse, outcome,
          previous_run, app>>

-----------------------------------------------------------------------------
(* Bounds *)

\* longest source table (rows of a raw extract)
MaxRows == 2

\* rows of one INSERT batch; stands for chunksize=50000 of to_sql, scaled
ChunkRows == 1

\* number of days of the generated date range; stands for the range
\* 2020-01-01 .. 2030-12-31 of main.dim_date, scaled
RangeDays == 5

-----------------------------------------------------------------------------
(* Cells *)

Null == [k |-> "null", n |-> 0, d |-> 1, s |-> <<>>]

RECURSIVE GCD(_, _)
GCD(a, b) == IF b = 0 THEN a ELSE GCD(b, a % b)

\* the number n/d (n >= 0, d > 0) in lowest terms
Rat(n, d) ==
    LET g == GCD(n, d)
    IN  [k |-> "num", n |-> n \div g, d |-> d \div g, s |-> <<>>]

Num(n) == Rat(n, 1)

Str(s) == [k |-> "str", n |-> 0, d |-> 1, s |-> s]

isnull(v) == v.k = "null"

Add(a, b) == Rat(a.n * b.d + b.n * a.d, a.d * b.d)

Mul(a, b) == Rat(a.n * b.n, a.d * b.d)

\* Series.round(2): nearest multiple of 0.01, a tie going to the even one
Round2(v) ==
    LET num == 100 * v.n
        q   == num \div v.d
        r   == num % v.d
        up  == \/ 2 * r > v.d
               \/ 2 * r = v.d /\ q % 2 = 1
    IN  Rat(IF up THEN q + 1 ELSE q, 100)

\* float -> int of astype(int): truncation
Trunc(v) == Num(v.n \div v.d)

-----------------------------------------------------------------------------
(* Strings *)

Digits == <<"0", "1", "2", "3", "4", "5", "6", "7", "8", "9">>

IsDigit(c) == \E i \in 1..10 : Digits[i] = c

DigitVal(c) == (CHOOSE i \in 1..10 : Digits[i] = c) - 1

AllDigits(s) == Len(s) > 0 /\ \A i \in 1..Len(s) : IsDigit(s[i])

RECURSIVE ToNat(_)
ToNat(s) ==
    IF s = <<>> THEN 0
    ELSE ToNat(SubSeq(s, 1, Len(s) - 1)) * 10 + DigitVal(s[Len(s)])

\* the decimal digits of n, left-padded with zeros to width w
RECURSIVE Pad(_, _)
Pad(n, w) ==
    IF w = 0 /\ n = 0 THEN <<>>
    ELSE Append(Pad(n \div 10, IF w = 0 THEN 0 ELSE w - 1), Digits[(n % 10) + 1])

UpperLetters ==
    <<"A", "B", "C", "D", "E", "F", "G", "H", "I", "J", "K", "L", "M",
      "N", "O", "P", "Q", "R", "S", "T", "U", "V", "W", "X", "Y", "Z">>

LowerLetters ==
    <<"a", "b", "c", "d", "e", "f", "g", "h", "i", "j", "k", "l", "m",
      "n", "o", "p", "q", "r", "s", "t", "u", "v", "w", "x", "y", "z">>

IsUpper(c) == \E i \in 1..26 : UpperLetters[i] = c

IsLower(c) == \E i \in 1..26 : LowerLetters[i] = c

IsAlpha(c) == IsUpper(c) \/ IsLower(c)

LowerChar(c) ==
    IF IsUpper(c) THEN LowerLetters[CHOOSE i \in 1..26 : UpperLetters[i] = c]
    ELSE c

UpperChar(c) ==
    IF IsLower(c) THEN UpperLetters[CHOOSE i \in 1..26 : LowerLetters[i] = c]
    ELSE c

\* str.lower()
lower(s) == [i \in 1..Len(s) |-> LowerChar(s[i])]

\* str.strip(): without leading and trailing blanks
RECURSIVE lstrip(_)
lstrip(s) == IF s # <<>> /\ s[1] = " " THEN lstrip(Tail(s)) ELSE s

RECURSIVE rstrip(_)
rstrip(s) ==
    IF s # <<>> /\ s[Len(s)] = " " THEN rstrip(SubSeq(s, 1, Len(s) - 1)) ELSE s

\* a strip() that leaves the trailing blanks; C17 tells it apart from the
\* one of the source
strip_leading_only(s) == lstrip(s)

strip(s) == rstrip(lstrip(s))

\* str.capitalize(): first character upper-cased, the rest lower-cased
capitalize(s) ==
    [i \in 1..Len(s) |-> IF i = 1 THEN UpperChar(s[i]) ELSE LowerChar(s[i])]

\* str.title(): a letter is upper-cased when it does not follow a letter and
\* lower-cased when it does
title(s) ==
    [i \in 1..Len(s) |->
        IF i > 1 /\ IsAlpha(s[i - 1]) THEN LowerChar(s[i]) ELSE UpperChar(s[i])]

\* the characters in code-point order, for comparing strings
CodeOrder ==
    <<" ", "'", "-", "/">> \o Digits \o UpperLetters \o LowerLetters

Ord(c) == CHOOSE i \in 1..Len(CodeOrder) : CodeOrder[i] = c

\* a < b for strings, as Python compares them
RECURSIVE StrLess(_, _)
StrLess(a, b) ==
    IF b = <<>> THEN FALSE
    ELSE IF a = <<>> THEN TRUE
    ELSE IF a[1] = b[1] THEN StrLess(Tail(a), Tail(b))
    ELSE Ord(a[1]) < Ord(b[1])

\* pd.to_numeric(errors='coerce') of one cell
to_numeric(v) ==
    CASE v.k = "null" -> Null
      [] v.k = "num"  -> v
      [] OTHER        -> IF AllDigits(v.s) THEN Num(ToNat(v.s)) ELSE Null

-----------------------------------------------------------------------------
(* Calendar dates and parse_date_formats *)

NaT == [nat |-> TRUE, y |-> 0, m |-> 0, d |-> 0]

Timestamp(y, m, d) == [nat |-> FALSE, y |-> y, m |-> m, d |-> d]

IsLeap(y) == (y % 4 = 0 /\ y % 100 # 0) \/ y % 400 = 0

DaysInMonth(y, m) ==
    CASE m \in {1, 3, 5, 7, 8, 10, 12} -> 31
      [] m \in {4, 6, 9, 11}           -> 30
      [] OTHER                         -> IF IsLeap(y) THEN 29 ELSE 28

ValidDate(y, m, d) ==
    /\ m \in 1..12
    /\ d >= 1
    /\ d <= DaysInMonth(y, m)

\* the three fields of s around its separators sep, or <<>> when s does not
\* consist of exactly three digit groups joined by sep
Fields(s, sep) ==
    LET pos == {i \in 1..Len(s) : s[i] = sep}
    IN  IF Cardinality(pos) # 2 THEN <<>>
        ELSE LET i == CHOOSE p \in pos : \A q \in pos : p <= q
                 j == CHOOSE p \in pos : \A q \in pos : p >= q
                 a == SubSeq(s, 1, i - 1)
                 b == SubSeq(s, i + 1, j - 1)
                 c == SubSeq(s, j + 1, Len(s))
             IN  IF AllDigits(a) /\ AllDigits(b) /\ AllDigits(c)
                 THEN <<a, b, c>> ELSE <<>>

\* pd.to_datetime(s, format=...) for a year-first (%Y<sep>%m<sep>%d) or a
\* month-first (%m<sep>%d<sep>%Y) format; NaT stands for the ValueError
strptime(s, sep, yearFirst) ==
    LET f  == Fields(s, sep)
    IN  IF f = <<>> THEN NaT
        ELSE LET ys == IF yearFirst THEN f[1] ELSE f[3]
                 ms == IF yearFirst THEN f[2] ELSE f[1]
                 ds == IF yearFirst THEN f[3] ELSE f[2]
             IN  IF /\ Len(ys) = 4
                    /\ Len(ms) \in 1..2
                    /\ Len(ds) \in 1..2
                    /\ ValidDate(ToNat(ys), ToNat(ms), ToNat(ds))
                 THEN Timestamp(ToNat(ys), ToNat(ms), ToNat(ds))
                 ELSE NaT

\* utils.parse_date_formats: '%Y-%m-%d', then '%m/%d/%Y', then '%m-%d-%Y'
parse_date_formats(v) ==
    IF v.k # "str" THEN NaT
    ELSE LET t1 == strptime(v.s, "-", TRUE)
             t2 == strptime(v.s, "/", FALSE)
             t3 == strptime(v.s, "-", FALSE)
         IN  IF ~t1.nat THEN t1
             ELSE IF ~t2.nat THEN t2
             ELSE t3

\* Series.dt.strftime('%Y%m%d') of one cell: NaT gives NaN
strftime_Ymd(t) ==
    IF t.nat THEN Null
    ELSE Str(Pad(t.y, 4) \o Pad(t.m, 2) \o Pad(t.d, 2))

-----------------------------------------------------------------------------
(* DataFrames *)

NoneDF == [isNone |-> TRUE, rows |-> <<>>]

DF(rows) == [isNone |-> FALSE, rows |-> rows]

MapRows(F(_), rows) == [i \in 1..Len(rows) |-> F(rows[i])]

\* the index labels of the rows of a frame
Index(df) == {df.rows[i].idx : i \in 1..Len(df.rows)}

\* Series.mean(): the mean of the non-null cells, NaN when there is none
RECURSIVE SumCells(_)
SumCells(cells) ==
    IF cells = <<>> THEN Num(0)
    ELSE Add(cells[1], SumCells(Tail(cells)))

mean(rows, col) ==
    LET cells == SelectSeq(MapRows(LAMBDA r : r[col], rows),
                           LAMBDA v : ~isnull(v))
    IN  IF cells = <<>> THEN Null
        ELSE LET t == SumCells(cells) IN Rat(t.n, t.d * Len(cells))

\* df[col] = df[col].fillna(x)
fillna(rows, col, x) ==
    MapRows(LAMBDA r : IF isnull(r[col]) THEN [r EXCEPT ![col] = x] ELSE r, rows)

-----------------------------------------------------------------------------
(* etl/transform/fact_sales.py *)

\* df.rename(columns={...}) of transform_fact_sales
rename_sales(r) ==
    [idx          |-> r.idx,
     customer_key |-> r.userId,
     product_key  |-> r.ProductId,
     rider_key    |-> r.deliveryRiderId,
     date_key     |-> r.deliveryDate,
     unit_price   |-> r.price,
     order_number |-> r.orderNumber,
     quantity     |-> r.quantity]

_calculate_sales_measures(rows) ==
    MapRows(LAMBDA r :
              LET q == to_numeric(r.quantity)
                  p == to_numeric(r.unit_price)
              IN  [idx          |-> r.idx,
                   customer_key |-> r.customer_key,
                   product_key  |-> r.product_key,
                   rider_key    |-> r.rider_key,
                   date_key     |-> r.date_key,
                   order_number |-> r.order_number,
                   quantity     |-> q,
                   unit_price   |-> p,
                   sales_amount |-> IF isnull(q) \/ isnull(p) THEN Null
                                    ELSE Round2(Mul(q, p))],
            rows)

\* parse, strftime('%Y%m%d'), to_numeric, fillna(0), astype(int)
sales_date_key(v) ==
    LET key == to_numeric(strftime_Ymd(parse_date_formats(v)))
    IN  IF isnull(key) THEN Num(0) ELSE Trunc(key)

_standardize_sales_date(rows) ==
    MapRows(LAMBDA r : [r EXCEPT !.date_key = sales_date_key(r.date_key)], rows)

\* if df[col].isnull().any(): df[col] = df[col].fillna(df[col].mean())
fill_with_mean(rows, col) ==
    IF \E i \in 1..Len(rows) : isnull(rows[i][col])
    THEN fillna(rows, col, mean(rows, col))
    ELSE rows

\* the dropna with rider_key left out of its subset; C7 tells it apart from
\* the one of the source
dropna_without_rider_key(rows) ==
    SelectSeq(rows, LAMBDA r : /\ ~isnull(r.customer_key)
                               /\ ~isnull(r.product_key))

\* df.dropna(subset=['customer_key', 'product_key', 'rider_key'])
dropna_key_cols(rows) ==
    SelectSeq(rows, LAMBDA r : /\ ~isnull(r.customer_key)
                               /\ ~isnull(r.product_key)
                               /\ ~isnull(r.rider_key))

_transform_missing_values(rows) ==
    dropna_key_cols(
        fill_with_mean(
            fill_with_mean(
                fill_with_mean(rows, "quantity"),
                "unit_price"),
            "sales_amount"))

\* pd.to_numeric(df[col], errors='coerce').fillna(0).astype(int), one cell
to_int(v) ==
    LET x == to_numeric(v)
    IN  IF isnull(x) THEN Num(0) ELSE Trunc(x)

int_columns(rows) ==
    MapRows(LAMBDA r : [r EXCEPT !.customer_key = to_int(@),
                                 !.product_key  = to_int(@),
                                 !.rider_key    = to_int(@),
                                 !.date_key     = to_int(@),
                                 !.quantity     = to_int(@)],
            rows)

transform_fact_sales(df) ==
    IF df.isNone THEN NoneDF
    ELSE DF(int_columns(
                _transform_missing_values(
                    _standardize_sales_date(
                        _calculate_sales_measures(
                            MapRows(rename_sales, df.rows))))))

-----------------------------------------------------------------------------
(* Sorting and deduplication of frames *)

\* DataFrame.sort_values with a stable sort: Before(a, b) says that row a
\* sorts strictly before row b; rows that tie keep their order
sort_values(rows, Before(_, _)) ==
    LET n == Len(rows)
        rank(i) == Cardinality({j \in 1..n :
                       \/ Before(rows[j], rows[i])
                       \/ ~Before(rows[i], rows[j]) /\ j < i})
    IN  [p \in 1..n |-> rows[CHOOSE i \in 1..n : rank(i) = p - 1]]

\* the rows at the positions in keep, in their order
take(rows, keep) ==
    [p \in 1..Cardinality(keep) |->
        rows[CHOOSE i \in keep : Cardinality({j \in keep : j <= i}) = p]]

\* DataFrame.drop_duplicates(subset=..., keep='first'); equal keys include
\* two null keys
drop_duplicates_first(rows, Key(_)) ==
    take(rows, {i \in 1..Len(rows) :
                   \A j \in 1..(i - 1) : Key(rows[j]) # Key(rows[i])})

\* DataFrame.drop_duplicates(subset=..., keep='last')
drop_duplicates_last(rows, Key(_)) ==
    take(rows, {i \in 1..Len(rows) :
                   \A j \in (i + 1)..Len(rows) : Key(rows[j]) # Key(rows[i])})

\* DataFrame.reset_index(drop=True)
reset_index(rows) == [i \in 1..Len(rows) |-> [rows[i] EXCEPT !.idx = i - 1]]

\* a < b for two non-null cells of one kind
CellLess(a, b) ==
    IF a.k = "str" THEN StrLess(a.s, b.s) ELSE a.n * b.d < b.n * a.d

\* ascending order of a column, nulls first / nulls last
AscNaFirst(a, b) == IF isnull(b) THEN FALSE ELSE isnull(a) \/ CellLess(a, b)

AscNaLast(a, b) == IF isnull(a) THEN FALSE ELSE isnull(b) \/ CellLess(a, b)

\* descending order of a column, nulls last
DescNaLast(a, b) == IF isnull(a) THEN FALSE ELSE isnull(b) \/ CellLess(b, a)

-----------------------------------------------------------------------------
(* String literals of the transformers *)

s_Male == <<"M", "a", "l", "e">>

s_Female == <<"F", "e", "m", "a", "l", "e">>

s_Other == <<"O", "t", "h", "e", "r">>

s_lc_male == <<"m", "a", "l", "e">>

s_lc_female == <<"f", "e", "m", "a", "l", "e">>

s_m == <<"m">>

s_f == <<"f">>

s_FEDEZ == <<"F", "E", "D", "E", "Z">>

s_FEDEX == <<"F", "E", "D", "E", "X">>

s_motorbike == <<"m", "o", "t", "o", "r", "b", "i", "k", "e">>

s_bike == <<"b", "i", "k", "e">>

s_trike == <<"t", "r", "i", "k", "e">>

s_lc_car == <<"c", "a", "r">>

s_Motorcycle == <<"M", "o", "t", "o", "r", "c", "y", "c", "l", "e">>

s_Bicycle == <<"B", "i", "c", "y", "c", "l", "e">>

s_Tricycle == <<"T", "r", "i", "c", "y", "c", "l", "e">>

s_Car == <<"C", "a", "r">>

s_Unknown == <<"U", "n", "k", "n", "o", "w", "n">>

s_None == <<"N", "o", "n", "e">>

\* Series.astype(str) of one cell: None becomes 'None', an integer its digits
astype_str(v) ==
    CASE v.k = "null" -> Str(s_None)
      [] v.k = "num"  -> Str(Pad(v.n, 1))
      [] OTHER        -> v

\* a Series.str method applied to one cell: NaN for whatever is not a string
str_apply(F(_), v) == IF v.k = "str" THEN Str(F(v.s)) ELSE Null

\* the standardize_gender that maps without str.lower(); C16 tells it apart
\* from the one of the source
standardize_gender_without_lower(v) ==
    CASE v.k = "str" /\ v.s \in {s_m, s_lc_male}   -> Str(s_Male)
      [] v.k = "str" /\ v.s \in {s_f, s_lc_female} -> Str(s_Female)
      [] OTHER                                  -> Str(s_Other)

\* standardize_gender: str.lower(), map(gender_map), fillna('Other')
standardize_gender(v) ==
    LET low == str_apply(lower, v)
    IN  CASE low.k = "str" /\ low.s \in {s_m, s_lc_male}   -> Str(s_Male)
          [] low.k = "str" /\ low.s \in {s_f, s_lc_female} -> Str(s_Female)
          [] OTHER                                      -> Str(s_Other)

-----------------------------------------------------------------------------
(* etl/transform/dim_rider.py *)

\* str.replace(pat, repl) with its default case=True, as the superseded
\* etl/transform.py has it; C18 tells it apart from the one of the source
RECURSIVE replace_case(_, _, _)
replace_case(s, pat, repl) ==
    IF Len(s) < Len(pat) THEN s
    ELSE IF SubSeq(s, 1, Len(pat)) = pat
         THEN repl \o replace_case(SubSeq(s, Len(pat) + 1, Len(s)), pat, repl)
         ELSE <<s[1]>> \o replace_case(Tail(s), pat, repl)

\* re.sub of the escaped pattern pat by repl under re.IGNORECASE
RECURSIVE replace_nocase(_, _, _)
replace_nocase(s, pat, repl) ==
    IF Len(s) < Len(pat) THEN s
    ELSE IF lower(SubSeq(s, 1, Len(pat))) = lower(pat)
         THEN repl \o replace_nocase(SubSeq(s, Len(pat) + 1, Len(s)), pat, repl)
         ELSE <<s[1]>> \o replace_nocase(Tail(s), pat, repl)

\* Series.replace(vehicle_map) of one string
vehicle_map(s) ==
    CASE s = s_motorbike -> s_Motorcycle
      [] s = s_bike      -> s_Bicycle
      [] s = s_trike     -> s_Tricycle
      [] s = s_lc_car       -> s_Car
      [] OTHER           -> s

\* one row of transform_dim_rider: rename, gender, courier, vehicle type and
\* the selection of the six dimension columns
rider_row(r) ==
    [idx          |-> r.idx,
     rider_key    |-> r.id,
     rider_name   |-> r.rider_name,
     vehicleType  |-> str_apply(LAMBDA s : capitalize(vehicle_map(lower(strip(s)))),
                                r.vehicleType),
     gender       |-> standardize_gender(r.gender),
     age          |-> r.age,
     courier_name |-> str_apply(LAMBDA s : replace_nocase(s, s_FEDEZ, s_FEDEX),
                                r.courier_name)]

transform_dim_rider(df) ==
    IF df.isNone THEN NoneDF ELSE DF(MapRows(rider_row, df.rows))

-----------------------------------------------------------------------------
(* etl/transform/dim_user.py                                                *)

\* the parse_date_formats of dim_user.py, pd.to_datetime(x, errors='coerce'),
\* on the three layouts the source data uses
to_datetime_coerce(v) == parse_date_formats(v)

\* df[col].fillna('Unknown')
fill_unknown(v) == IF isnull(v) THEN Str(s_Unknown) ELSE v

\* replace('', 'Unknown')
blank_unknown(v) == IF v.k = "str" /\ v.s = <<>> THEN Str(s_Unknown) ELSE v

\* (first + ' ' + last).str.strip(), '' replaced by 'Unknown'
full_name(first, last) ==
    LET f == astype_str(IF isnull(first) THEN Str(<<>>) ELSE first)
        l == astype_str(IF isnull(last) THEN Str(<<>>) ELSE last)
    IN  blank_unknown(Str(strip(f.s \o <<" ">> \o l.s)))

\* fillna, replace('', 'Unknown'), astype(str), str.title()
location(v) == str_apply(title, astype_str(blank_unknown(fill_unknown(v))))

\* the built-in country_to_continent dictionary (the fallback): for each
\* continent, in the order of first appearance, the keys mapped to it
country_to_continent ==
    <<
      [continent |-> <<"A", "s", "i", "a">>,
       countries |-> {
         <<"A", "f", "g", "h", "a", "n", "i", "s", "t", "a", "n">>,
         <<"A", "r", "m", "e", "n", "i", "a">>,
         <<"A", "z", "e", "r", "b", "a", "i", "j", "a", "n">>,
         <<"B", "a", "h", "r", "a", "i", "n">>,
         <<"B", "a", "n", "g", "l", "a", "d", "e", "s", "h">>,
         <<"B", "h", "u", "t", "a", "n">>,
         <<"B", "r", "u", "n", "e", "i", " ", "D", "a", "r", "u", "s", "s",
           "a", "l", "a", "m">>,
         <<"C", "a", "m", "b", "o", "d", "i", "a">>,
         <<"C", "h", "i", "n", "a">>,
         <<"C", "y", "p", "r", "u", "s">>,
         <<"G", "e", "o", "r", "g", "i", "a">>,
         <<"H", "o", "n", "g", " ", "K", "o", "n", "g">>,
         <<"I", "n", "d", "i", "a">>,
         <<"I", "n", "d", "o", "n", "e", "s", "i", "a">>,
         <<"I", "r", "a", "n">>,
         <<"I", "r", "a", "q">>,
         <<"I", "s", "r", "a", "e", "l">>,
         <<"J", "a", "p", "a", "n">>,
         <<"J", "o", "r", "d", "a", "n">>,
         <<"K", "a", "z", "a", "k", "h", "s", "t", "a", "n">>,
         <<"K", "u", "w", "a", "i", "t">>,
         <<"K", "y", "r", "g", "y", "z", " ", "R", "e", "p", "u", "b", "l",
           "i", "c">>,
         <<"L", "a", "o", " ", "P", "e", "o", "p", "l", "e", "'", "s", " ",
           "D", "e", "m", "o", "c", "r", "a", "t", "i", "c", " ", "R", "e",
           "p", "u", "b", "l", "i", "c">>,
         <<"L", "e", "b", "a", "n", "o", "n">>,
         <<"M", "a", "c", "a", "o">>,
         <<"M", "a", "l", "a", "y", "s", "i", "a">>,
         <<"M", "a", "l", "d", "i", "v", "e", "s">>,
         <<"M", "o", "n", "g", "o", "l", "i", "a">>,
         <<"M", "y", "a", "n", "m", "a", "r">>,
         <<"N", "e", "p", "a", "l">>,
         <<"D", "e", "m", "o", "c", "r", "a", "t", "i", "c", " ", "P", "e",
           "o", "p", "l", "e", "'", "s", " ", "R", "e", "p", "u", "b", "l",
           "i", "c", " ", "o", "f", " ", "K", "o", "r", "e", "a">>,
         <<"O", "m", "a", "n">>,
         <<"P", "a", "k", "i", "s", "t", "a", "n">>,
         <<"P", "a", "l", "e", "s", "t", "i", "n", "e">>,
         <<"P", "h", "i", "l", "i", "p", "p", "i", "n", "e", "s">>,
         <<"Q", "a", "t", "a", "r">>,
         <<"R", "e", "p", "u", "b", "l", "i", "c", " ", "o", "f", " ", "K",
           "o", "r", "e", "a">>,
         <<"R", "u", "s", "s", "i", "a", "n", " ", "F", "e", "d", "e", "r",
           "a", "t", "i", "o", "n">>,
         <<"S", "a", "u", "d", "i", " ", "A", "r", "a", "b", "i", "a">>,
         <<"S", "i", "n", "g", "a", "p", "o", "r", "e">>,
         <<"S", "r", "i", " ", "L", "a", "n", "k", "a">>,
         <<"S", "y", "r", "i", "a", "n", " ", "A", "r", "a", "b", " ", "R",
           "e", "p", "u", "b", "l", "i", "c">>,
         <<"T", "a", "i", "w", "a", "n">>,
         <<"T", "a", "j", "i", "k", "i", "s", "t", "a", "n">>,
         <<"T", "h", "a", "i", "l", "a", "n", "d">>,
         <<"T", "i", "m", "o", "r", "-", "L", "e", "s", "t", "e">>,
         <<"T", "u", "r", "k", "e", "y">>,
         <<"T", "u", "r", "k", "m", "e", "n", "i", "s", "t", "a", "n">>,
         <<"U", "n", "i", "t", "e", "d", " ", "A", "r", "a", "b", " ", "E",
           "m", "i", "r", "a", "t", "e", "s">>,
         <<"U", "z", "b", "e", "k", "i", "s", "t", "a", "n">>,
         <<"V", "i", "e", "t", "n", "a", "m">>,
         <<"Y", "e", "m", "e", "n">>
       }],
      [continent |-> <<"E", "u", "r", "o", "p", "e">>,
       countries |-> {
         <<"A", "l", "a", "n", "d", " ", "I", "s", "l", "a", "n", "d", "s">>,
         <<"A", "l", "b", "a", "n", "i", "a">>,
         <<"A", "n", "d", "o", "r", "r", "a">>,
         <<"A", "u", "s", "t", "r", "i", "a">>,
         <<"B", "e", "l", "a", "r", "u", "s">>,
         <<"B", "e", "l", "g", "i", "u", "m">>,
         <<"B", "o", "s", "n", "i", "a", " ", "a", "n", "d", " ", "H", "e",
           "r", "z", "e", "g", "o", "v", "i", "n", "a">>,
         <<"B", "u", "l", "g", "a", "r", "i", "a">>,
         <<"C", "r", "o", "a", "t", "i", "a">>,
         <<"C", "z", "e", "c", "h", "i", "a">>,
         <<"D", "e", "n", "m", "a", "r", "k">>,
         <<"E", "s", "t", "o", "n", "i", "a">>,
         <<"F", "a", "r", "o", "e", " ", "I", "s", "l", "a", "n", "d", "s">>,
         <<"F", "i", "n", "l", "a", "n", "d">>,
         <<"F", "r", "a", "n", "c", "e">>,
         <<"G", "e", "r", "m", "a", "n", "y">>,
         <<"G", "i", "b", "r", "a", "l", "t", "a", "r">>,
         <<"G", "r", "e", "e", "c", "e">>,
         <<"G", "u", "e", "r", "n", "s", "e", "y">>,
         <<"H", "o", "l", "y", " ", "S", "e", "e", " ", "(", "V", "a", "t",
           "i", "c", "a", "n", " ", "C", "i", "t", "y", " ", "S", "t", "a",
           "t", "e", ")">>,
         <<"H", "u", "n", "g", "a", "r", "y">>,
         <<"I", "c", "e", "l", "a", "n", "d">>,
         <<"I", "r", "e", "l", "a", "n", "d">>,
         <<"I", "s", "l", "e", " ", "o", "f", " ", "M", "a", "n">>,
         <<"I", "t", "a", "l", "y">>,
         <<"J", "e", "r", "s", "e", "y">>,
         <<"L", "a", "t", "v", "i", "a">>,
         <<"L", "i", "e", "c", "h", "t", "e", "n", "s", "t", "e", "i", "n">>,
         <<"L", "i", "t", "h", "u", "a", "n", "i", "a">>,
         <<"L", "u", "x", "e", "m", "b", "o", "u", "r", "g">>,
         <<"M", "a", "l", "t", "a">>,
         <<"M", "o", "l", "d", "o", "v", "a">>,
         <<"M", "o", "n", "a", "c", "o">>,
         <<"M", "o", "n", "t", "e", "n", "e", "g", "r", "o">>,
         <<"N", "e", "t", "h", "e", "r", "l", "a", "n", "d", "s">>,
         <<"N", "o", "r", "t", "h", " ", "M", "a", "c", "e", "d", "o", "n",
           "i", "a">>,
         <<"N", "o", "r", "w", "a", "y">>,
         <<"P", "o", "l", "a", "n", "d">>,
         <<"P", "o", "r", "t", "u", "g", "a", "l">>,
         <<"R", "o", "m", "a", "n", "i", "a">>,
         <<"S", "a", "n", " ", "M", "a", "r", "i", "n", "o">>,
         <<"S", "e", "r", "b", "i", "a">>,
         <<"S", "l", "o", "v", "a", "k", "i", "a">>,
         <<"S", "l", "o", "v", "e", "n", "i", "a">>,
         <<"S", "p", "a", "i", "n">>,
         <<"S", "v", "a", "l", "b", "a", "r", "d", " ", "&", " ", "J", "a",
           "n", " ", "M", "a", "y", "e", "n", " ", "I", "s", "l", "a", "n",
           "d", "s">>,
         <<"S", "w", "e", "d", "e", "n">>,
         <<"S", "w", "i", "t", "z", "e", "r", "l", "a", "n", "d">>,
         <<"U", "k", "r", "a", "i", "n", "e">>,
         <<"U", "n", "i", "t", "e", "d", " ", "K", "i", "n", "g", "d", "o",
           "m">>
       }],
      [continent |-> <<"N", "o", "r", "t", "h", " ", "A", "m", "e", "r", "i", "c", "a">>,
       countries |-> {
         <<"A", "n", "g", "u", "i", "l", "l", "a">>,
         <<"A", "n", "t", "i", "g", "u", "a", " ", "a", "n", "d", " ", "B",
           "a", "r", "b", "u", "d", "a">>,
         <<"A", "r", "u", "b", "a">>,
         <<"B", "a", "h", "a", "m", "a", "s">>,
         <<"B", "a", "r", "b", "a", "d", "o", "s">>,
         <<"B", "e", "l", "i", "z", "e">>,
         <<"B", "e", "r", "m", "u", "d", "a">>,
         <<"B", "o", "n", "a", "i", "r", "e", ",", " ", "S", "i", "n", "t",
           " ", "E", "u", "s", "t", "a", "t", "i", "u", "s", " ", "a", "n",
           "d", " ", "S", "a", "b", "a">>,
         <<"C", "a", "n", "a", "d", "a">>,
         <<"C", "a", "y", "m", "a", "n", " ", "I", "s", "l", "a", "n", "d",
           "s">>,
         <<"C", "o", "s", "t", "a", " ", "R", "i", "c", "a">>,
         <<"C", "u", "b", "a">>,
         <<"C", "u", "r", "a", "c", "a", "o">>,
         <<"D", "o", "m", "i", "n", "i", "c", "a">>,
         <<"D", "o", "m", "i", "n", "i", "c", "a", "n", " ", "R", "e", "p",
           "u", "b", "l", "i", "c">>,
         <<"E", "l", " ", "S", "a", "l", "v", "a", "d", "o", "r">>,
         <<"G", "r", "e", "e", "n", "l", "a", "n", "d">>,
         <<"G", "r", "e", "n", "a", "d", "a">>,
         <<"G", "u", "a", "d", "e", "l", "o", "u", "p", "e">>,
         <<"G", "u", "a", "t", "e", "m", "a", "l", "a">>,
         <<"H", "a", "i", "t", "i">>,
         <<"H", "o", "n", "d", "u", "r", "a", "s">>,
         <<"J", "a", "m", "a", "i", "c", "a">>,
         <<"M", "a", "r", "t", "i", "n", "i", "q", "u", "e">>,
         <<"M", "e", "x", "i", "c", "o">>,
         <<"M", "o", "n", "t", "s", "e", "r", "r", "a", "t">>,
         <<"N", "i", "c", "a", "r", "a", "g", "u", "a">>,
         <<"P", "a", "n", "a", "m", "a">>,
         <<"P", "u", "e", "r", "t", "o", " ", "R", "i", "c", "o">>,
         <<"S", "a", "i", "n", "t", " ", "B", "a", "r", "t", "h", "e", "l",
           "e", "m", "y">>,
         <<"S", "a", "i", "n", "t", " ", "K", "i", "t", "t", "s", " ", "a",
           "n", "d", " ", "N", "e", "v", "i", "s">>,
         <<"S", "a", "i", "n", "t", " ", "L", "u", "c", "i", "a">>,
         <<"S", "a", "i", "n", "t", " ", "M", "a", "r", "t", "i", "n">>,
         <<"S", "a", "i", "n", "t", " ", "P", "i", "e", "r", "r", "e", " ",
           "a", "n", "d", " ", "M", "i", "q", "u", "e", "l", "o", "n">>,
         <<"S", "a", "i", "n", "t", " ", "V", "i", "n", "c", "e", "n", "t",
           " ", "a", "n", "d", " ", "t", "h", "e", " ", "G", "r", "e", "n",
           "a", "d", "i", "n", "e", "s">>,
         <<"S", "i", "n", "t", " ", "M", "a", "a", "r", "t", "e", "n">>,
         <<"T", "r", "i", "n", "i", "d", "a", "d", " ", "a", "n", "d", " ",
           "T", "o", "b", "a", "g", "o">>,
         <<"T", "u", "r", "k", "s", " ", "a", "n", "d", " ", "C", "a", "i",
           "c", "o", "s", " ", "I", "s", "l", "a", "n", "d", "s">>,
         <<"U", "n", "i", "t", "e", "d", " ", "S", "t", "a", "t", "e", "s">>,
         <<"U", "n", "i", "t", "e", "d", " ", "S", "t", "a", "t", "e", "s",
           " ", "o", "f", " ", "A", "m", "e", "r", "i", "c", "a">>,
         <<"V", "i", "r", "g", "i", "n", " ", "I", "s", "l", "a", "n", "d",
           "s", ",", " ", "U", ".", "S", ".">>,
         <<"V", "i", "r", "g", "i", "n", " ", "I", "s", "l", "a", "n", "d",
           "s", ",", " ", "B", "r", "i", "t", "i", "s", "h">>
       }],
      [continent |-> <<"S", "o", "u", "t", "h", " ", "A", "m", "e", "r", "i", "c", "a">>,
       countries |-> {
         <<"A", "r", "g", "e", "n", "t", "i", "n", "a">>,
         <<"B", "o", "l", "i", "v", "i", "a">>,
         <<"B", "r", "a", "z", "i", "l">>,
         <<"C", "h", "i", "l", "e">>,
         <<"C", "o", "l", "o", "m", "b", "i", "a">>,
         <<"E", "c", "u", "a", "d", "o", "r">>,
         <<"F", "a", "l", "k", "l", "a", "n", "d", " ", "I", "s", "l", "a",
           "n", "d", "s", " ", "(", "M", "a", "l", "v", "i", "n", "a", "s",
           ")">>,
         <<"F", "r", "e", "n", "c", "h", " ", "G", "u", "i", "a", "n", "a">>,
         <<"G", "u", "y", "a", "n", "a">>,
         <<"P", "a", "r", "a", "g", "u", "a", "y">>,
         <<"P", "e", "r", "u">>,
         <<"S", "u", "r", "i", "n", "a", "m", "e">>,
         <<"U", "r", "u", "g", "u", "a", "y">>,
         <<"V", "e", "n", "e", "z", "u", "e", "l", "a">>
       }],
      [continent |-> <<"A", "f", "r", "i", "c", "a">>,
       countries |-> {
         <<"A", "l", "g", "e", "r", "i", "a">>,
         <<"A", "n", "g", "o", "l", "a">>,
         <<"B", "e", "n", "i", "n">>,
         <<"B", "o", "t", "s", "w", "a", "n", "a">>,
         <<"B", "u", "r", "k", "i", "n", "a", " ", "F", "a", "s", "o">>,
         <<"B", "u", "r", "u", "n", "d", "i">>,
         <<"C", "a", "m", "e", "r", "o", "o", "n">>,
         <<"C", "a", "p", "e", " ", "V", "e", "r", "d", "e">>,
         <<"C", "e", "n", "t", "r", "a", "l", " ", "A", "f", "r", "i", "c",
           "a", "n", " ", "R", "e", "p", "u", "b", "l", "i", "c">>,
         <<"C", "h", "a", "d">>,
         <<"C", "o", "m", "o", "r", "o", "s">>,
         <<"C", "o", "n", "g", "o">>,
         <<"D", "e", "m", "o", "c", "r", "a", "t", "i", "c", " ", "R", "e",
           "p", "u", "b", "l", "i", "c", " ", "o", "f", " ", "t", "h", "e",
           " ", "C", "o", "n", "g", "o">>,
         <<"C", "o", "t", "e", " ", "d", "'", "I", "v", "o", "i", "r", "e">>,
         <<"D", "j", "i", "b", "o", "u", "t", "i">>,
         <<"E", "g", "y", "p", "t">>,
         <<"E", "q", "u", "a", "t", "o", "r", "i", "a", "l", " ", "G", "u",
           "i", "n", "e", "a">>,
         <<"E", "r", "i", "t", "r", "e", "a">>,
         <<"E", "s", "w", "a", "t", "i", "n", "i">>,
         <<"E", "t", "h", "i", "o", "p", "i", "a">>,
         <<"G", "a", "b", "o", "n">>,
         <<"G", "a", "m", "b", "i", "a">>,
         <<"G", "h", "a", "n", "a">>,
         <<"G", "u", "i", "n", "e", "a">>,
         <<"G", "u", "i", "n", "e", "a", "-", "B", "i", "s", "s", "a", "u">>,
         <<"K", "e", "n", "y", "a">>,
         <<"L", "e", "s", "o", "t", "h", "o">>,
         <<"L", "i", "b", "e", "r", "i", "a">>,
         <<"L", "i", "b", "y", "a", "n", " ", "A", "r", "a", "b", " ", "J",
           "a", "m", "a", "h", "i", "r", "i", "y", "a">>,
         <<"M", "a", "d", "a", "g", "a", "s", "c", "a", "r">>,
         <<"M", "a", "l", "a", "w", "i">>,
         <<"M", "a", "l", "i">>,
         <<"M", "a", "u", "r", "i", "t", "a", "n", "i", "a">>,
         <<"M", "a", "u", "r", "i", "t", "i", "u", "s">>,
         <<"M", "a", "y", "o", "t", "t", "e">>,
         <<"M", "o", "r", "o", "c", "c", "o">>,
         <<"M", "o", "z", "a", "m", "b", "i", "q", "u", "e">>,
         <<"N", "a", "m", "i", "b", "i", "a">>,
         <<"N", "i", "g", "e", "r">>,
         <<"N", "i", "g", "e", "r", "i", "a">>,
         <<"R", "e", "u", "n", "i", "o", "n">>,
         <<"R", "w", "a", "n", "d", "a">>,
         <<"S", "a", "i", "n", "t", " ", "H", "e", "l", "e", "n", "a">>,
         <<"S", "a", "o", " ", "T", "o", "m", "e", " ", "a", "n", "d", " ",
           "P", "r", "i", "n", "c", "i", "p", "e">>,
         <<"S", "e", "n", "e", "g", "a", "l">>,
         <<"S", "e", "y", "c", "h", "e", "l", "l", "e", "s">>,
         <<"S", "i", "e", "r", "r", "a", " ", "L", "e", "o", "n", "e">>,
         <<"S", "o", "m", "a", "l", "i", "a">>,
         <<"S", "o", "u", "t", "h", " ", "A", "f", "r", "i", "c", "a">>,
         <<"S", "o", "u", "t", "h", " ", "S", "u", "d", "a", "n">>,
         <<"S", "u", "d", "a", "n">>,
         <<"T", "a", "n", "z", "a", "n", "i", "a">>,
         <<"T", "o", "g", "o">>,
         <<"T", "u", "n", "i", "s", "i", "a">>,
         <<"U", "g", "a", "n", "d", "a">>,
         <<"W", "e", "s", "t", "e", "r", "n", " ", "S", "a", "h", "a", "r",
           "a">>,
         <<"Z", "a", "m", "b", "i", "a">>,
         <<"Z", "i", "m", "b", "a", "b", "w", "e">>
       }],
      [continent |-> <<"O", "c", "e", "a", "n", "i", "a">>,
       countries |-> {
         <<"A", "m", "e", "r", "i", "c", "a", "n", " ", "S", "a", "m", "o",
           "a">>,
         <<"A", "u", "s", "t", "r", "a", "l", "i", "a">>,
         <<"C", "h", "r", "i", "s", "t", "m", "a", "s", " ", "I", "s", "l",
           "a", "n", "d">>,
         <<"C", "o", "c", "o", "s", " ", "(", "K", "e", "e", "l", "i", "n",
           "g", ")", " ", "I", "s", "l", "a", "n", "d", "s">>,
         <<"C", "o", "o", "k", " ", "I", "s", "l", "a", "n", "d", "s">>,
         <<"F", "i", "j", "i">>,
         <<"F", "r", "e", "n", "c", "h", " ", "P", "o", "l", "y", "n", "e",
           "s", "i", "a">>,
         <<"G", "u", "a", "m">>,
         <<"K", "i", "r", "i", "b", "a", "t", "i">>,
         <<"M", "a", "r", "s", "h", "a", "l", "l", " ", "I", "s", "l", "a",
           "n", "d", "s">>,
         <<"M", "i", "c", "r", "o", "n", "e", "s", "i", "a">>,
         <<"N", "a", "u", "r", "u">>,
         <<"N", "e", "w", " ", "C", "a", "l", "e", "d", "o", "n", "i", "a">>,
         <<"N", "e", "w", " ", "Z", "e", "a", "l", "a", "n", "d">>,
         <<"N", "i", "u", "e">>,
         <<"N", "o", "r", "f", "o", "l", "k", " ", "I", "s", "l", "a", "n",
           "d">>,
         <<"N", "o", "r", "t", "h", "e", "r", "n", " ", "M", "a", "r", "i",
           "a", "n", "a", " ", "I", "s", "l", "a", "n", "d", "s">>,
         <<"P", "a", "l", "a", "u">>,
         <<"P", "a", "p", "u", "a", " ", "N", "e", "w", " ", "G", "u", "i",
           "n", "e", "a">>,
         <<"P", "i", "t", "c", "a", "i", "r", "n", " ", "I", "s", "l", "a",
           "n", "d", "s">>,
         <<"S", "a", "m", "o", "a">>,
         <<"S", "o", "l", "o", "m", "o", "n", " ", "I", "s", "l", "a", "n",
           "d", "s">>,
         <<"T", "o", "k", "e", "l", "a", "u">>,
         <<"T", "o", "n", "g", "a">>,
         <<"T", "u", "v", "a", "l", "u">>,
         <<"U", "n", "i", "t", "e", "d", " ", "S", "t", "a", "t", "e", "s",
           " ", "M", "i", "n", "o", "r", " ", "O", "u", "t", "l", "y", "i",
           "n", "g", " ", "I", "s", "l", "a", "n", "d", "s">>,
         <<"V", "a", "n", "u", "a", "t", "u">>,
         <<"W", "a", "l", "l", "i", "s", " ", "a", "n", "d", " ", "F", "u",
           "t", "u", "n", "a">>
       }],
      [continent |-> <<"A", "n", "t", "a", "r", "c", "t", "i", "c", "a">>,
       countries |-> {
         <<"A", "n", "t", "a", "r", "c", "t", "i", "c", "a">>,
         <<"B", "o", "u", "v", "e", "t", " ", "I", "s", "l", "a", "n", "d">>,
         <<"F", "r", "e", "n", "c", "h", " ", "S", "o", "u", "t", "h", "e",
           "r", "n", " ", "T", "e", "r", "r", "i", "t", "o", "r", "i", "e",
           "s">>,
         <<"H", "e", "a", "r", "d", " ", "I", "s", "l", "a", "n", "d", " ",
           "a", "n", "d", " ", "M", "c", "D", "o", "n", "a", "l", "d", " ",
           "I", "s", "l", "a", "n", "d", "s">>,
         <<"S", "o", "u", "t", "h", " ", "G", "e", "o", "r", "g", "i", "a",
           " ", "a", "n", "d", " ", "t", "h", "e", " ", "S", "o", "u", "t",
           "h", " ", "S", "a", "n", "d", "w", "i", "c", "h", " ", "I", "s",
           "l", "a", "n", "d", "s">>
       }],
      [continent |-> <<"O", "t", "h", "e", "r">>,
       countries |-> {
         <<"U", "n", "k", "n", "o", "w", "n">>
       }]
    >>

s_country == <<"c", "o", "u", "n", "t", "r", "y">>

s_country_name ==
    <<"c", "o", "u", "n", "t", "r", "y", "_", "n", "a", "m", "e">>

s_continent == <<"c", "o", "n", "t", "i", "n", "e", "n", "t">>

s_region == <<"r", "e", "g", "i", "o", "n">>

s_nan == <<"n", "a", "n">>

\* the file users.csv beside dim_user.py: state is "absent", "unreadable"
\* (read_csv raises) or "ok", with the header and the rows read_csv returns
users_csv == env.users_csv

\* mapping_df.columns.str.lower().str.strip()
csv_columns(csv) == [i \in 1..Len(csv.header) |-> strip(lower(csv.header[i]))]

\* next((c for c in options if c in mapping_df.columns), None); <<>> is None
first_option(options, columns) ==
    LET found == {i \in 1..Len(options) :
                     \E j \in 1..Len(columns) : columns[j] = options[i]}
    IN  IF found = {} THEN <<>>
        ELSE options[CHOOSE i \in found : \A h \in found : i <= h]

country_col(csv) ==
    first_option(<<s_country, s_country_name>>, csv_columns(csv))

continent_col(csv) ==
    first_option(<<s_continent, s_region>>, csv_columns(csv))

\* the try block reaches mapping_successful = True
mapping_successful(csv) ==
    /\ csv.state = "ok"
    /\ country_col(csv) # <<>>
    /\ continent_col(csv) # <<>>

\* the cells of the column called name (the first column of that name)
csv_column(csv, name) ==
    LET cols == csv_columns(csv)
        j    == CHOOSE j \in 1..Len(cols) :
                    cols[j] = name /\ \A h \in 1..Len(cols) : cols[h] = name => j <= h
    IN  [i \in 1..Len(csv.rows) |-> csv.rows[i][j]]

\* astype(str).str.title() of a cell read by read_csv (an empty cell is NaN)
csv_title(v) == title(IF isnull(v) THEN s_nan ELSE astype_str(v).s)

\* mapping_df[[country_col, continent_col]] title-cased, the first row of
\* each country kept
continent_map_data(csv) ==
    LET countries  == csv_column(csv, country_col(csv))
        continents == csv_column(csv, continent_col(csv))
    IN  drop_duplicates_first(
            [i \in 1..Len(csv.rows) |->
                [country   |-> csv_title(countries[i]),
                 continent |-> csv_title(continents[i])]],
            LAMBDA m : m.country)

\* the row after the left merge on country, df["continent"] = ...
\* .fillna("Other") and the drop of [country_col, continent_col]: a dropped
\* country or continent column is the one the final-columns loop fills
\* with 'Unknown'
merge_continent(r, csv) ==
    LET data    == continent_map_data(csv)
        matches == {i \in 1..Len(data) : Str(data[i].country) = r.country}
        merged  == IF matches = {} THEN Str(s_Other)
                   ELSE Str(data[CHOOSE i \in matches : TRUE].continent)
    IN  [r EXCEPT
           !.country   = IF country_col(csv) = s_country
                         THEN Str(s_Unknown) ELSE @,
           !.continent = IF continent_col(csv) = s_continent
                         THEN Str(s_Unknown) ELSE merged]

\* the map without its fillna("Other"); C15 tells it apart from the one of
\* the source
map_country_without_fillna(r) ==
    LET hits == {i \in 1..Len(country_to_continent) :
                    r.country.k = "str"
                    /\ r.country.s \in country_to_continent[i].countries}
    IN  [r EXCEPT !.continent =
            IF hits = {} THEN Null
            ELSE Str(country_to_continent[CHOOSE i \in hits : TRUE].continent)]

\* df["country"].map(country_to_continent).fillna("Other")
map_country_to_continent(r) ==
    LET hits == {i \in 1..Len(country_to_continent) :
                    r.country.k = "str"
                    /\ r.country.s \in country_to_continent[i].countries}
    IN  [r EXCEPT !.continent =
            IF hits = {} THEN Str(s_Other)
            ELSE Str(country_to_continent[CHOOSE i \in hits : TRUE].continent)]

\* lines 60-219: the mapping of users.csv, or else the dictionary
assign_continent(r) ==
    IF mapping_successful(users_csv) THEN merge_continent(r, users_csv)
    ELSE map_country_to_continent(r)

user_row(r) ==
    [idx         |-> r.idx,
     user_key    |-> r.id,
     username    |-> fill_unknown(r.username),
     full_name   |-> full_name(r.firstName, r.lastName),
     gender      |-> standardize_gender(
                         astype_str(IF isnull(r.gender) THEN Str(s_Other)
                                    ELSE r.gender)),
     city        |-> location(r.city),
     country     |-> location(r.country),
     continent   |-> Null,
     signup_date |-> IF isnull(r.createdAt) THEN NaT
                     ELSE to_datetime_coerce(r.createdAt)]

TsKey(t) == t.y * 10000 + t.m * 100 + t.d

\* the sort with na_position='last'; C22 tells it apart from the one of the
\* source
UserBefore_na_last(a, b) ==
    IF AscNaFirst(a.user_key, b.user_key) THEN TRUE
    ELSE IF AscNaFirst(b.user_key, a.user_key) THEN FALSE
    ELSE IF a.signup_date.nat THEN FALSE
    ELSE b.signup_date.nat \/ TsKey(a.signup_date) < TsKey(b.signup_date)

\* sort_values(by=['user_key', 'signup_date'], na_position='first')
UserBefore(a, b) ==
    IF AscNaFirst(a.user_key, b.user_key) THEN TRUE
    ELSE IF AscNaFirst(b.user_key, a.user_key) THEN FALSE
    ELSE IF b.signup_date.nat THEN FALSE
    ELSE a.signup_date.nat \/ TsKey(a.signup_date) < TsKey(b.signup_date)

transform_dim_user(df) ==
    IF df.isNone THEN NoneDF
    ELSE DF(reset_index(
                drop_duplicates_last(
                    sort_values(
                        MapRows(LAMBDA r : assign_continent(user_row(r)),
                                df.rows),
                        UserBefore),
                    LAMBDA r : r.user_key)))

-----------------------------------------------------------------------------
(* etl/transform/dim_product.py *)

\* the keyword lists of infer_category, in the order they are tried

ClothingWords ==
    {<<"s", "h", "o", "e">>,
     <<"s", "h", "i", "r", "t">>,
     <<"p", "a", "n", "t", "s">>,
     <<"d", "r", "e", "s", "s">>,
     <<"c", "l", "o", "t", "h", "e", "s">>,
     <<"a", "p", "p", "a", "r", "e", "l">>,
     <<"j", "a", "c", "k", "e", "t">>,
     <<"j", "e", "a", "n", "s">>,
     <<"s", "n", "e", "a", "k", "e", "r">>,
     <<"s", "n", "e", "a", "k", "e", "r", "s">>,
     <<"s", "k", "i", "r", "t">>,
     <<"g", "l", "o", "v", "e", "s">>,
     <<"h", "a", "t">>,
     <<"c", "o", "a", "t">>,
     <<"s", "u", "i", "t">>,
     <<"t", "-", "s", "h", "i", "r", "t">>,
     <<"s", "h", "o", "r", "t", "s">>,
     <<"s", "o", "c", "k", "s">>,
     <<"s", "c", "a", "r", "f">>}

ElectronicsWords ==
    {<<"p", "h", "o", "n", "e">>,
     <<"l", "a", "p", "t", "o", "p">>,
     <<"t", "a", "b", "l", "e", "t">>,
     <<"c", "h", "a", "r", "g", "e", "r">>,
     <<"e", "a", "r", "p", "h", "o", "n", "e">>,
     <<"h", "e", "a", "d", "p", "h", "o", "n", "e">>,
     <<"t", "v">>,
     <<"c", "a", "m", "e", "r", "a">>,
     <<"m", "i", "c", "r", "o", "w", "a", "v", "e">>,
     <<"f", "r", "i", "d", "g", "e">>,
     <<"t", "e", "l", "e", "v", "i", "s", "i", "o", "n">>,
     <<"c", "o", "m", "p", "u", "t", "e", "r">>,
     <<"c", "o", "n", "s", "o", "l", "e">>,
     <<"s", "m", "a", "r", "t", "w", "a", "t", "c", "h">>,
     <<"s", "p", "e", "a", "k", "e", "r">>,
     <<"m", "o", "n", "i", "t", "o", "r">>,
     <<"k", "e", "y", "b", "o", "a", "r", "d">>,
     <<"m", "o", "u", "s", "e">>}

ToyWords ==
    {<<"t", "o", "y">>,
     <<"l", "e", "g", "o">>,
     <<"d", "o", "l", "l">>,
     <<"f", "i", "g", "u", "r", "e">>,
     <<"p", "u", "z", "z", "l", "e">>,
     <<"g", "a", "m", "e">>,
     <<"b", "o", "a", "r", "d", " ", "g", "a", "m", "e">>,
     <<"a", "c", "t", "i", "o", "n", " ", "f", "i", "g", "u", "r", "e">>,
     <<"p", "l", "u", "s", "h">>,
     <<"s", "t", "u", "f", "f", "e", "d", " ", "a", "n", "i", "m", "a", "l">>,
     <<"b", "i", "k", "e">>,
     <<"c", "a", "r">>,
     <<"b", "a", "l", "l">>,
     <<"c", "h", "a", "i", "r">>,
     <<"s", "o", "a", "p">>,
     <<"t", "a", "b", "l", "e">>}

AccessoryWords ==
    {<<"w", "a", "t", "c", "h">>,
     <<"r", "i", "n", "g">>,
     <<"b", "r", "a", "c", "e", "l", "e", "t">>,
     <<"n", "e", "c", "k", "l", "a", "c", "e">>,
     <<"e", "a", "r", "r", "i", "n", "g">>,
     <<"j", "e", "w", "e", "l", "r", "y">>,
     <<"t", "o", "w", "e", "l", "s">>}

FoodWords ==
    {<<"b", "a", "c", "o", "n">>,
     <<"c", "h", "e", "e", "s", "e">>,
     <<"s", "a", "u", "s", "a", "g", "e">>,
     <<"f", "i", "s", "h">>,
     <<"c", "h", "i", "c", "k", "e", "n">>,
     <<"b", "r", "e", "a", "d">>,
     <<"b", "e", "e", "f">>,
     <<"e", "g", "g">>,
     <<"c", "h", "i", "p", "s">>,
     <<"s", "o", "d", "a">>,
     <<"s", "n", "a", "c", "k">>,
     <<"c", "a", "n", "d", "y">>,
     <<"c", "o", "o", "k", "i", "e">>,
     <<"c", "a", "k", "e">>,
     <<"d", "e", "s", "s", "e", "r", "t">>,
     <<"s", "a", "l", "a", "d">>,
     <<"p", "i", "z", "z", "a">>,
     <<"f", "i", "s", "h">>,
     <<"t", "u", "n", "a">>}

s_Electronics == <<"E", "l", "e", "c", "t", "r", "o", "n", "i", "c", "s">>

s_Toys == <<"T", "o", "y", "s">>

s_Bags == <<"B", "a", "g", "s">>

s_Makeup == <<"M", "a", "k", "e", "u", "p">>

s_Clothing == <<"C", "l", "o", "t", "h", "i", "n", "g">>

s_Uncategorized == <<"U", "n", "c", "a", "t", "e", "g", "o", "r", "i", "z", "e", "d">>

s_Gadgets == <<"G", "a", "d", "g", "e", "t", "s">>

s_Laptops == <<"L", "a", "p", "t", "o", "p", "s">>

s_Appliances == <<"A", "p", "p", "l", "i", "a", "n", "c", "e", "s">>

s_Toy == <<"T", "o", "y">>

s_Bag == <<"B", "a", "g">>

s_Make_Up == <<"M", "a", "k", "e", " ", "U", "p">>

s_MenS_Apparel == <<"M", "e", "n", "'", "S", " ", "A", "p", "p", "a", "r", "e", "l">>

s_Clothes == <<"C", "l", "o", "t", "h", "e", "s">>

\* s contains w
Contains(s, w) ==
    \E i \in 1..(Len(s) - Len(w) + 1) : SubSeq(s, i, i + Len(w) - 1) = w

ContainsAny(s, words) == \E w \in words : Contains(s, w)

infer_category(name) ==
    IF name.k # "str" THEN s_Uncategorized
    ELSE LET name_lower == lower(name.s)
         IN  CASE ContainsAny(name_lower, ClothingWords)    -> s_Clothing
               [] ContainsAny(name_lower, ElectronicsWords) -> s_Electronics
               [] ContainsAny(name_lower, ToyWords)         -> s_Toys
               [] ContainsAny(name_lower, AccessoryWords)   -> s_Clothing
               [] ContainsAny(name_lower, FoodWords)        -> s_Toys
               [] OTHER                                     -> s_Uncategorized

\* Series.replace(category_mapping) of one string
category_mapping(s) ==
    CASE s \in {s_Gadgets, s_Laptops, s_Appliances} -> s_Electronics
      [] s = s_Toy                                  -> s_Toys
      [] s = s_Bag                                  -> s_Bags
      [] s \in {s_Make_Up, s_Makeup}                -> s_Makeup
      [] s \in {s_MenS_Apparel, s_Clothes}          -> s_Clothing
      [] OTHER                                      -> s

allowed_categories == {s_Electronics, s_Toys, s_Bags, s_Makeup, s_Clothing}

\* a category column in which an allowed source category is kept and the
\* inferred one only fills the gaps; C19 tells it apart from the one of the
\* source
category_of_source_first(name, category) ==
    LET mapped   == category_mapping(title(strip(category.s)))
        inferred == infer_category(name)
    IN  Str(IF mapped \in allowed_categories THEN mapped ELSE inferred)

\* the category column of one row: title-cased and mapped source category,
\* overridden by the inferred one, reduced to the allowed categories
category_of(name, category) ==
    LET mapped   == category_mapping(title(strip(category.s)))
        inferred == infer_category(name)
        chosen   == IF inferred # s_Uncategorized THEN inferred ELSE mapped
    IN  Str(IF chosen \in allowed_categories THEN chosen ELSE s_Uncategorized)

\* rename and astype(str).str.strip() of the three text columns
product_row(r) ==
    [idx          |-> r.idx,
     product_key  |-> r.ID,
     product_name |-> str_apply(strip, astype_str(r.Name)),
     category     |-> str_apply(strip, astype_str(r.Category)),
     product_code |-> str_apply(strip, astype_str(r.ProductCode)),
     price        |-> r.Price,
     created_at   |-> r.CreatedAt,
     updated_at   |-> r.UpdatedAt]

\* df.notna().sum(axis=1)
non_null_count(r) ==
    Cardinality({c \in {"product_key", "product_name", "category",
                        "product_code", "price", "created_at", "updated_at"} :
                    ~isnull(r[c])})

\* sort_values(by=['product_code', 'non_null_count', 'updated_at'],
\*             ascending=[True, False, False])
ProductBefore(a, b) ==
    IF AscNaLast(a.product_code, b.product_code) THEN TRUE
    ELSE IF AscNaLast(b.product_code, a.product_code) THEN FALSE
    ELSE IF non_null_count(a) # non_null_count(b)
         THEN non_null_count(a) > non_null_count(b)
    ELSE DescNaLast(a.updated_at, b.updated_at)

\* the duplicate handling: sort, drop_duplicates(['product_code'], 'first')
handle_duplicates(rows) ==
    drop_duplicates_first(sort_values(rows, ProductBefore),
                          LAMBDA r : r.product_code)

\* a timestamp cell: NaT is null, a date is its YYYYMMDD number
ts_cell(t) == IF t.nat THEN Null ELSE Num(TsKey(t))

\* category, price and the two timestamps of a deduplicated row
product_convert(r) ==
    [r EXCEPT !.category   = category_of(r.product_name, r.category),
              !.price      = to_numeric(@),
              !.created_at = ts_cell(to_datetime_coerce(@)),
              !.updated_at = ts_cell(to_datetime_coerce(@))]

\* sort_values(by='product_key')
ProductKeyBefore(a, b) == AscNaLast(a.product_key, b.product_key)

transform_dim_product(df) ==
    IF df.isNone \/ df.rows = <<>> THEN NoneDF
    ELSE LET deduped   == handle_duplicates(MapRows(product_row, df.rows))
             converted == MapRows(product_convert, deduped)
             unique    == drop_duplicates_first(converted, LAMBDA r : r.product_code)
             named     == SelectSeq(unique, LAMBDA r : Len(r.product_name.s) > 1)
         IN  DF(reset_index(sort_values(named, ProductKeyBefore)))

-----------------------------------------------------------------------------
(* etl/transform/dim_date.py *)

DayNames ==
    <<"Monday", "Tuesday", "Wednesday", "Thursday", "Friday", "Saturday",
      "Sunday">>

MonthNames ==
    <<"January", "February", "March", "April", "May", "June", "July",
      "August", "September", "October", "November", "December">>

\* a day of the week that counts from Sunday as 0; C21 tells it apart from
\* the one of the source
dayofweek_from_sunday(t) ==
    LET shift == <<0, 3, 2, 5, 0, 3, 5, 1, 4, 6, 2, 4>>
        y     == IF t.m < 3 THEN t.y - 1 ELSE t.y
    IN  (y + (y \div 4) - (y \div 100) + (y \div 400) + shift[t.m] + t.d) % 7

\* Series.dt.dayofweek: Monday is 0 and Sunday is 6
dayofweek(t) ==
    LET shift == <<0, 3, 2, 5, 0, 3, 5, 1, 4, 6, 2, 4>>
        y     == IF t.m < 3 THEN t.y - 1 ELSE t.y
        sun0  == (y + (y \div 4) - (y \div 100) + (y \div 400)
                    + shift[t.m] + t.d) % 7
    IN  (sun0 + 6) % 7

date_row(r) ==
    [idx        |-> r.idx,
     date_key   |-> to_int(strftime_Ymd(r.full_date)),
     full_date  |-> r.full_date,
     day_name   |-> DayNames[dayofweek(r.full_date) + 1],
     month_name |-> MonthNames[r.full_date.m],
     day        |-> r.full_date.d,
     month      |-> r.full_date.m,
     year       |-> r.full_date.y,
     is_weekend |-> IF dayofweek(r.full_date) \in {5, 6} THEN "Y" ELSE "N"]

transform_dim_date(df) ==
    IF df.isNone \/ df.rows = <<>> THEN NoneDF
    ELSE DF(MapRows(date_row, df.rows))

\* the day after t
next_day(t) ==
    IF t.d < DaysInMonth(t.y, t.m) THEN Timestamp(t.y, t.m, t.d + 1)
    ELSE IF t.m < 12 THEN Timestamp(t.y, t.m + 1, 1)
    ELSE Timestamp(t.y + 1, 1, 1)

\* main.dim_date: start_date = "2020-01-01"
start_date == Timestamp(2020, 1, 1)

\* pd.date_range of n days from start_date, as the frame source_df
RECURSIVE date_range(_, _)
date_range(t, n) ==
    IF n = 0 THEN <<>> ELSE <<t>> \o date_range(next_day(t), n - 1)

date_source ==
    LET days == date_range(start_date, RangeDays)
    IN  DF([i \in 1..Len(days) |-> [idx |-> i - 1, full_date |-> days[i]]])

-----------------------------------------------------------------------------
(* etl/extract.py *)

\* pd.read_sql: the rows of the query result under a fresh RangeIndex 0..n-1
read_sql(rows) ==
    DF([i \in 1..Len(rows) |-> [rows[i] EXCEPT !.idx = i - 1]])

\* extract_from_db: None when the environment is incomplete or the query
\* raises, the query result otherwise
extract_from_db(rows) ==
    IF env.source THEN {read_sql(rows), NoneDF} ELSE {NoneDF}

-----------------------------------------------------------------------------
(* etl/load.py, against MySQL: TRUNCATE TABLE, DROP TABLE and CREATE TABLE  *)
(* commit implicitly, so a later rollback undoes only the rows inserted     *)
(* after them                                                               *)

\* a table of the warehouse; created_by tells the table the warehouse schema
\* defines (with its partitions) from one that to_sql created
Table(rows) == [exists |-> TRUE, rows |-> rows, created_by |-> "schema"]

NoTable == [exists |-> FALSE, rows |-> <<>>, created_by |-> "none"]

\* to_sql(index=False): the rows without their index label
sql_rows(rows) ==
    MapRows(LAMBDA r : [c \in DOMAIN r \ {"idx"} |-> r[c]], rows)

NChunks(n) == (n + ChunkRows - 1) \div ChunkRows

\* the k-th batch of chunksize rows
Chunk(rows, k) ==
    SubSeq(rows, (k - 1) * ChunkRows + 1,
           IF k * ChunkRows < Len(rows) THEN k * ChunkRows ELSE Len(rows))

\* the statements of a load_to_warehouse that takes the else branch for
\* every table name; C11 tells it apart from the one of the source
Statements_replace_all(table_name, tbl, rows) ==
    LET inserts == [k \in 1..NChunks(Len(rows)) |->
                       [op |-> "insert", rows |-> Chunk(rows, k)]]
        ddl(op) == <<[op |-> op, rows |-> <<>>]>>
    IN  (IF tbl.exists THEN ddl("drop") ELSE <<>>) \o ddl("create") \o inserts

\* the statements load_to_warehouse sends inside its transaction: TRUNCATE
\* and append for fact_sales, if_exists='replace' for every other table
Statements(table_name, tbl, rows) ==
    LET inserts == [k \in 1..NChunks(Len(rows)) |->
                       [op |-> "insert", rows |-> Chunk(rows, k)]]
        ddl(op) == <<[op |-> op, rows |-> <<>>]>>
    IN  IF table_name = "fact_sales" THEN ddl("truncate") \o inserts
        ELSE (IF tbl.exists THEN ddl("drop") ELSE <<>>)
                 \o ddl("create") \o inserts

\* the effect of a statement when TRUNCATE TABLE leaves the rows in place;
\* C12 tells it apart from the one of the source
Execute_without_truncate(sess, stmt) ==
    CASE stmt.op = "insert" ->
             [sess EXCEPT !.pending = @ \o stmt.rows]
      [] stmt.op = "drop" ->
             [committed |-> NoTable, pending |-> <<>>]
      [] stmt.op = "create" ->
             [committed |-> [Table(<<>>) EXCEPT !.created_by = "to_sql"],
              pending   |-> <<>>]
      [] OTHER -> sess

\* the effect of one statement on a session [committed, pending]
Execute(sess, stmt) ==
    CASE stmt.op = "insert" ->
             [sess EXCEPT !.pending = @ \o stmt.rows]
      [] stmt.op = "drop" ->
             [committed |-> NoTable, pending |-> <<>>]
      [] stmt.op = "create" ->
             [committed |-> [Table(<<>>) EXCEPT !.created_by = "to_sql"],
              pending   |-> <<>>]
      [] OTHER ->  \* truncate
             [committed |-> [sess.committed EXCEPT !.rows = <<>>],
              pending   |-> <<>>]

RECURSIVE ExecuteAll(_, _)
ExecuteAll(sess, stmts) ==
    IF stmts = <<>> THEN sess
    ELSE ExecuteAll(Execute(sess, stmts[1]), Tail(stmts))

\* transaction.commit()
commit(sess) ==
    [committed |-> [sess.committed EXCEPT !.rows = @ \o sess.pending],
     pending   |-> <<>>]

\* transaction.rollback()
rollback(sess) == [sess EXCEPT !.pending = <<>>]

\* where the try block can raise: at statement f, or at the commit
\* (f = number of statements + 1); 0 is the call that does not raise
FailPoints(table_name, tbl, rows) ==
    IF table_name = "fact_sales" /\ ~tbl.exists THEN {1}
    ELSE 0..(Len(Statements(table_name, tbl, rows)) + 1)

\* the table after the transaction of load_to_warehouse that raises at f
load_transaction(table_name, tbl, rows, f) ==
    LET stmts == Statements(table_name, tbl, rows)
        done  == SubSeq(stmts, 1, IF f = 0 THEN Len(stmts) ELSE f - 1)
        sess  == ExecuteAll([committed |-> tbl, pending |-> <<>>], done)
    IN  (IF f = 0 THEN commit(sess) ELSE rollback(sess)).committed

-----------------------------------------------------------------------------
(* Source rows the model draws from *)

S_2020_01_02 == <<"2", "0", "2", "0", "-", "0", "1", "-", "0", "2">>
S_2020_01_01 == <<"2", "0", "2", "0", "-", "0", "1", "-", "0", "1">>
S_2020_01_03 == <<"2", "0", "2", "0", "-", "0", "1", "-", "0", "3">>
S_01_03_2020 == <<"0", "1", "/", "0", "3", "/", "2", "0", "2", "0">>
S_01_01_2020 == <<"0", "1", "-", "0", "1", "-", "2", "0", "2", "0">>
S_2020_02_30 == <<"2", "0", "2", "0", "-", "0", "2", "-", "3", "0">>
S_Jan_5      == <<"J", "a", "n", " ", "5">>
S_abc        == <<"a", "b", "c">>
S_7          == <<"7">>
S_ORD_1      == <<"O", "R", "D", "-", "1">>
S_ORD_2      == <<"O", "R", "D", "-", "2">>
S_Al         == <<"A", "l">>
S_TRIKE      == <<" ", " ", "T", "R", "I", "K", "E", " ">>
S_fedez      == <<"f", "e", "d", "e", "z">>
S_UpperF          == <<"F">>
S_ann        == <<"a", "n", "n">>
S_Lee        == <<"L", "e", "e">>
S_manila     == <<"m", "a", "n", "i", "l", "a">>
S_japan      == <<"j", "a", "p", "a", "n">>
S_Phone      == <<"P", "h", "o", "n", "e">>
S_X          == <<"X">>
S_GADGETS    == <<"G", "A", "D", "G", "E", "T", "S">>
S_P1         == <<"P", "1">>
S_P2         == <<"P", "2">>

\* a clean order line: 2 x 1.234 for user 1, product 1, rider 1
CleanSale ==
    [idx |-> 0, quantity |-> Num(2), price |-> Rat(1234, 1000),
     orderNumber |-> Str(S_ORD_1), userId |-> Num(1), ProductId |-> Num(1),
     deliveryRiderId |-> Num(1), deliveryDate |-> Str(S_2020_01_02)]

\* an order line of user 2 for product 2, its rider id the text '7'
SaleOfProduct2 ==
    [CleanSale EXCEPT !.userId = Num(2), !.ProductId = Num(2),
                      !.deliveryRiderId = Str(S_7)]

\* order lines that differ from the clean one in their keys
SalesKeyVariants ==
    {[CleanSale EXCEPT !.userId = k[1], !.ProductId = k[2],
                       !.deliveryRiderId = k[3]] :
        k \in {<<Null, Num(1), Num(1)>>, <<Num(1), Null, Num(1)>>,
               <<Num(1), Num(1), Null>>, <<Num(1), Str(S_abc), Num(1)>>}}
        \cup {SaleOfProduct2}

\* order lines that differ from the clean one in their measures
SalesMeasureVariants ==
    {[CleanSale EXCEPT !.quantity = m[1], !.price = m[2],
                       !.orderNumber = Str(S_ORD_2)] :
        m \in {<<Null, Rat(250, 100)>>, <<Num(3), Null>>,
               <<Str(S_abc), Num(10)>>, <<Str(S_7), Rat(5, 100)>>}}

\* order lines that differ from the clean one in their delivery date
SalesDateVariants ==
    {[CleanSale EXCEPT !.deliveryDate = v] :
        v \in {Str(S_01_03_2020), Str(S_01_01_2020), Str(S_2020_02_30),
               Str(S_Jan_5), Null, Num(20200102)}}

RawSales ==
    {CleanSale} \cup SalesKeyVariants \cup SalesMeasureVariants
                \cup SalesDateVariants

CleanRider ==
    [idx |-> 0, id |-> Num(1), rider_name |-> Str(S_Al),
     vehicleType |-> Str(s_motorbike), age |-> Num(30),
     gender |-> Str(s_lc_male), courier_name |-> Str(s_FEDEZ)]

S_MALE == <<"M", "A", "L", "E">>

S_sp_m == <<" ", "m">>

S_BIKE == <<"B", "I", "K", "E">>

S_vAN == <<" ", "v", "A", "N">>

S_DHL == <<"D", "H", "L">>

S_xFeDeZfedez == <<"x", "F", "e", "D", "e", "Z", "f", "e", "d", "e", "z">>

RawRiders ==
    {CleanRider}
        \cup {[CleanRider EXCEPT !.id = v] : v \in {Null, Num(7)}}
        \cup {[CleanRider EXCEPT !.vehicleType = v] :
                 v \in {Str(S_TRIKE), Str(S_BIKE), Str(s_lc_car), Str(S_vAN),
                        Null}}
        \cup {[CleanRider EXCEPT !.gender = v] :
                 v \in {Str(S_UpperF), Str(S_MALE), Str(s_Female), Str(S_sp_m),
                        Null}}
        \cup {[CleanRider EXCEPT !.courier_name = v] :
                 v \in {Str(S_fedez), Str(S_xFeDeZfedez), Str(S_DHL), Null}}

CleanUser ==
    [idx |-> 0, id |-> Num(1), username |-> Str(S_ann),
     firstName |-> Str(S_ann), lastName |-> Str(S_Lee), gender |-> Str(S_UpperF),
     city |-> Str(S_manila), country |-> Str(S_japan),
     createdAt |-> Str(S_2020_01_02)]

S_oz == <<"o", "z">>

S_Japan == <<"J", "a", "p", "a", "n">>

S_Asia == <<"A", "s", "i", "a">>

S_Europe == <<"E", "u", "r", "o", "p", "e">>

S_hdr_Country == <<" ", "C", "o", "u", "n", "t", "r", "y">>

S_hdr_Continent == <<"C", "o", "n", "t", "i", "n", "e", "n", "t">>

S_hdr_REGION == <<"R", "E", "G", "I", "O", "N">>

S_hdr_code == <<"c", "o", "d", "e">>

AbsentCsv == [state |-> "absent", header |-> <<>>, rows |-> <<>>]

UnreadableCsv == [state |-> "unreadable", header |-> <<>>, rows |-> <<>>]

\* a users.csv with two columns: Japan listed twice, under Asia first
MappingCsv(country_header, continent_header) ==
    [state  |-> "ok",
     header |-> <<country_header, continent_header>>,
     rows   |-> <<<<Str(S_Japan), Str(S_Asia)>>,
                  <<Str(S_Japan), Str(S_Europe)>>>>]

CsvFiles ==
    {AbsentCsv, UnreadableCsv,
     MappingCsv(S_hdr_code, S_hdr_REGION),
     MappingCsv(S_hdr_Country, S_hdr_code)}
        \cup {MappingCsv(c, k) : c \in {S_hdr_Country, s_country_name},
                                 k \in {S_hdr_Continent, S_hdr_REGION}}

S_isle_of_man ==
    <<"i", "s", "l", "e", " ", "o", "f", " ", "m", "a", "n">>

RawUsers ==
    {CleanUser, [CleanUser EXCEPT !.country = Str(S_oz)],
     [CleanUser EXCEPT !.country = Str(S_isle_of_man)]}
        \cup {[CleanUser EXCEPT !.gender = v] :
                 v \in {Str(S_MALE), Str(s_m), Num(7), Null}}
        \cup {[CleanUser EXCEPT !.id = v] : v \in {Null, Num(2)}}
        \cup {[CleanUser EXCEPT !.createdAt = v, !.city = Null] :
                 v \in {Str(S_01_03_2020), Null}}
        \cup {[CleanUser EXCEPT !.username = Null, !.firstName = Null,
                                !.lastName = Null, !.country = Str(<<>>)]}
        \cup {[CleanUser EXCEPT !.username = Str(<<>>),
                                !.city = Str(<<" ", " ">>)]}

S_toys == <<"t", "o", "y", "s">>

S_Kit == <<"K", "i", "t">>

S_sp_bag == <<" ", "b", "a", "g">>

S_Food == <<"F", "o", "o", "d">>

CleanProduct ==
    [idx |-> 0, ID |-> Num(1), Name |-> Str(S_Phone),
     Category |-> Str(S_GADGETS), ProductCode |-> Str(S_P1),
     Price |-> Num(500), CreatedAt |-> Str(S_2020_01_01),
     UpdatedAt |-> Str(S_2020_01_02)]

\* product 2 under its own code
Product2 == [CleanProduct EXCEPT !.ID = Num(2), !.ProductCode = Str(S_P2)]

\* product 2 under the code of product 1, updated later
Product2Recoded ==
    [CleanProduct EXCEPT !.ID = Num(2), !.UpdatedAt = Str(S_2020_01_03)]

RawProducts ==
    {CleanProduct, Product2, Product2Recoded,
     [Product2Recoded EXCEPT !.Price = Null],
     [Product2Recoded EXCEPT !.UpdatedAt = Str(S_2020_01_02), !.CreatedAt = Null],
     [CleanProduct EXCEPT !.ID = Num(3), !.UpdatedAt = Null],
     [Product2 EXCEPT !.ID = Null],
     [CleanProduct EXCEPT !.ID = Num(3), !.ProductCode = Null],
     [Product2 EXCEPT !.ID = Num(4), !.Name = Str(S_X)],
     [Product2 EXCEPT !.ID = Num(5), !.Name = Null, !.Category = Null],
     [CleanProduct EXCEPT !.Category = Str(S_toys)],
     [Product2 EXCEPT !.Name = Str(S_Kit)],
     [Product2 EXCEPT !.Name = Str(S_Kit), !.Category = Str(S_sp_bag)],
     [Product2 EXCEPT !.Name = Str(S_Kit), !.Category = Str(S_Food)]}

\* the sequences over S of length at most n
SeqUpTo(S, n) == UNION {[1..k -> S] : k \in 0..n}

Tables == {"dim_rider", "dim_user", "dim_product", "dim_date", "fact_sales"}

EmptySource == [riders |-> <<>>, users |-> <<>>, products |-> <<>>, sales |-> <<>>]

-----------------------------------------------------------------------------
(* main.py: the five table functions, each extract -> transform -> print    *)
(* the head -> load                                                         *)

\* bound on the number of load_to_warehouse calls of one run that raise
MaxFailures == 1

At(fn, at) == [fn |-> fn, at |-> at]

\* main(): the order of the table functions
Order == <<"dim_rider", "dim_user", "dim_product", "dim_date", "fact_sales">>

Pos(fn) == CHOOSE i \in 1..Len(Order) : Order[i] = fn

\* a main with the call after fn commented out; C13 tells it apart from
\* the one of the source
Return_skipping_next(fn) ==
    IF Pos(fn) + 1 < Len(Order) THEN At(Order[Pos(fn) + 2], "extract")
    ELSE At("main", "done")

\* where main goes when the table function fn returns
Return(fn) ==
    IF Pos(fn) < Len(Order) THEN At(Order[Pos(fn) + 1], "extract")
    ELSE At("main", "done")

\* source_df = extract_from_db(rider_query)
ExtractRiders ==
    /\ pc = At("dim_rider", "extract")
    /\ source_df' \in extract_from_db(source_db.riders)
    /\ pc' = At("dim_rider", "transform")
    /\ UNCHANGED <<previous_run, app, env, source_db, transformed_df, warehouse, outcome>>

\* source_df = extract_from_db(user_query)
ExtractUsers ==
    /\ pc = At("dim_user", "extract")
    /\ source_df' \in extract_from_db(source_db.users)
    /\ pc' = At("dim_user", "transform")
    /\ UNCHANGED <<previous_run, app, env, source_db, transformed_df, warehouse, outcome>>

\* source_df = extract_from_db(product_query)
ExtractProducts ==
    /\ pc = At("dim_product", "extract")
    /\ source_df' \in extract_from_db(source_db.products)
    /\ pc' = At("dim_product", "transform")
    /\ UNCHANGED <<previous_run, app, env, source_db, transformed_df, warehouse, outcome>>

\* source_df = pd.DataFrame({'full_date': pd.date_range(...)})
GenerateDates ==
    /\ pc = At("dim_date", "extract")
    /\ source_df' = date_source
    /\ pc' = At("dim_date", "transform")
    /\ UNCHANGED <<previous_run, app, env, source_db, transformed_df, warehouse, outcome>>

\* source_df = extract_from_db(sales_query)
ExtractSales ==
    /\ pc = At("fact_sales", "extract")
    /\ source_df' \in extract_from_db(source_db.sales)
    /\ pc' = At("fact_sales", "transform")
    /\ UNCHANGED <<previous_run, app, env, source_db, transformed_df, warehouse, outcome>>

\* transformed_df = transform_dim_rider(source_df); the frame passed in is
\* renamed and rewritten in place
TransformRider ==
    /\ pc = At("dim_rider", "transform")
    /\ transformed_df' = transform_dim_rider(source_df)
    /\ source_df' = transformed_df'
    /\ pc' = At("dim_rider", "print")
    /\ UNCHANGED <<previous_run, app, env, source_db, warehouse, outcome>>

\* transformed_df = transform_dim_user(source_df), which works on a copy
TransformUser ==
    /\ pc = At("dim_user", "transform")
    /\ transformed_df' = transform_dim_user(source_df)
    /\ pc' = At("dim_user", "print")
    /\ UNCHANGED <<previous_run, app, env, source_db, source_df, warehouse, outcome>>

\* transformed_df = transform_dim_product(source_df), which works on the
\* renamed copy
TransformProduct ==
    /\ pc = At("dim_product", "transform")
    /\ transformed_df' = transform_dim_product(source_df)
    /\ pc' = At("dim_product", "print")
    /\ UNCHANGED <<previous_run, app, env, source_db, source_df, warehouse, outcome>>

\* transformed_df = transform_dim_date(source_df); the derived columns are
\* added to the frame passed in
TransformDate ==
    /\ pc = At("dim_date", "transform")
    /\ transformed_df' = transform_dim_date(source_df)
    /\ source_df' = IF transformed_df'.isNone THEN source_df ELSE transformed_df'
    /\ pc' = At("dim_date", "print")
    /\ UNCHANGED <<previous_run, app, env, source_db, warehouse, outcome>>

\* transformed_df = transform_fact_sales(source_df); the frame passed in is
\* renamed, filled and filtered in place
TransformSales ==
    /\ pc = At("fact_sales", "transform")
    /\ transformed_df' = transform_fact_sales(source_df)
    /\ source_df' = transformed_df'
    /\ pc' = At("fact_sales", "print")
    /\ UNCHANGED <<previous_run, app, env, source_db, warehouse, outcome>>

\* print(transformed_df.head()): an AttributeError when transformed_df is
\* None, which nothing in main catches
PrintHead ==
    /\ pc.at = "print"
    /\ pc' = At(pc.fn, IF transformed_df.isNone THEN "raised" ELSE "load")
    /\ UNCHANGED <<previous_run, app, env, source_db, source_df, transformed_df, warehouse, outcome>>

Failures == Cardinality({t \in Tables : outcome[t] = "rolled_back"})

\* load_to_warehouse(transformed_df, table_name), and the return to main
LoadToWarehouse ==
    /\ pc.at = "load"
    /\ LET table_name == pc.fn
           tbl        == warehouse[table_name]
           rows       == sql_rows(transformed_df.rows)
       IN  IF transformed_df.isNone
           THEN /\ outcome' = [outcome EXCEPT ![table_name] = "skipped"]
                /\ UNCHANGED warehouse
           ELSE IF ~env.warehouse
           THEN /\ outcome' = [outcome EXCEPT ![table_name] = "env_error"]
                /\ UNCHANGED warehouse
           ELSE \E f \in FailPoints(table_name, tbl, rows) :
                /\ f # 0 => env.faults /\ Failures < MaxFailures
                /\ warehouse' = [warehouse EXCEPT ![table_name] =
                                    load_transaction(table_name, tbl, rows, f)]
                /\ outcome' = [outcome EXCEPT ![table_name] =
                                    IF f = 0 THEN "committed" ELSE "rolled_back"]
    /\ pc' = Return(pc.fn)
    /\ UNCHANGED <<previous_run, app, env, source_db, source_df, transformed_df>>

-----------------------------------------------------------------------------
(* Specifications *)

\* the warehouse as an earlier run over older source rows left it
OldWarehouse ==
    [dim_rider   |-> Table(sql_rows(transform_dim_rider(
                         DF(<<[CleanRider EXCEPT !.id = Num(9)]>>)).rows)),
     dim_user    |-> Table(sql_rows(transform_dim_user(
                         DF(<<[CleanUser EXCEPT !.id = Num(9)]>>)).rows)),
     dim_product |-> Table(sql_rows(transform_dim_product(
                         DF(<<[CleanProduct EXCEPT !.ID = Num(9)]>>)).rows)),
     dim_date    |-> Table(sql_rows(transform_dim_date(date_source).rows)),
     fact_sales  |-> Table(sql_rows(transform_fact_sales(
                         DF(<<[CleanSale EXCEPT !.userId = Num(9),
                                                !.ProductId = Num(9),
                                                !.deliveryRiderId = Num(9)]>>)).rows))]

\* the warehouse with its tables created and never loaded
FreshWarehouse == [t \in Tables |-> Table(<<>>)]

\* the order lines of the full run
RunSales ==
    {CleanSale, SaleOfProduct2,
     [CleanSale EXCEPT !.userId = Null],
     [CleanSale EXCEPT !.deliveryDate = Str(S_Jan_5)],
     [CleanSale EXCEPT !.deliveryDate = Str(S_01_03_2020)]}

\* the source databases of the full run
RunSources ==
    {[riders   |-> <<CleanRider, [CleanRider EXCEPT !.id = Num(7)]>>,
      users    |-> <<CleanUser, [CleanUser EXCEPT !.id = Num(2)]>>,
      products |-> p,
      sales    |-> b] :
        p \in {<<CleanProduct, Product2>>, <<CleanProduct, Product2Recoded>>},
        b \in SeqUpTo(RunSales, MaxRows)}

NotRun == [t \in Tables |-> "not_run"]

\* no run of main has returned yet
NoRun == [n |-> 0, warehouse |-> FreshWarehouse, outcome |-> NotRun]

-----------------------------------------------------------------------------
(* app/queries: the cached OLAP query functions of the dashboard, read over *)
(* the star schema of the warehouse                                         *)

\* bound on the rows of fact_sales the dashboard reads
MaxFacts == 2

\* bound on the query calls of one dashboard session
MaxCalls == 2

SqlNull == "NULL"

S_Manila == <<"M", "a", "n", "i", "l", "a">>

S_OBay == <<"O", "'", "B", "a", "y">>

StarDates ==
    <<[date_key |-> 20200105, year |-> 2020, month |-> 1,
       month_name |-> "January", quarter |-> 1],
      [date_key |-> 20200401, year |-> 2020, month |-> 4,
       month_name |-> "April", quarter |-> 2],
      [date_key |-> 20210101, year |-> 2021, month |-> 1,
       month_name |-> "January", quarter |-> 1]>>

\* dim_date as its DDL defines it, and as load_to_warehouse recreates it from
\* the frame of transform_dim_date, which has no quarter column
DateTables ==
    {Table(StarDates),
     [Table([i \in 1..Len(StarDates) |->
                [c \in DOMAIN StarDates[i] \ {"quarter"} |-> StarDates[i][c]]])
        EXCEPT !.created_by = "to_sql"]}

StarProducts ==
    <<[product_key |-> 1, category |-> s_Electronics, product_name |-> S_Phone],
      [product_key |-> 2, category |-> s_Toys, product_name |-> S_Kit]>>

StarUsers ==
    <<[user_key |-> 1, city |-> S_Manila], [user_key |-> 2, city |-> S_OBay]>>

StarRiders ==
    <<[rider_key |-> 1, courier_name |-> s_FEDEX, vehicleType |-> s_Motorcycle],
      [rider_key |-> 2, courier_name |-> S_DHL, vehicleType |-> s_Car]>>

\* a line of order O1
Line1 ==
    [order_number |-> "O1", customer_key |-> 1, product_key |-> 1,
     rider_key |-> 1, date_key |-> 20200105, quantity |-> 1,
     sales_amount |-> 100]

\* the order lines fact_sales is filled from: two lines of order O1, an
\* order of April 2020 with the sales amount of Line1, an order of 2021 and
\* a line without an order number
StarSales ==
    {Line1,
     [Line1 EXCEPT !.quantity = 2, !.sales_amount = 50],
     [Line1 EXCEPT !.order_number = "O2", !.customer_key = 2,
                   !.product_key = 2, !.rider_key = 2, !.date_key = 20200401],
     [Line1 EXCEPT !.order_number = "O3", !.date_key = 20210101,
                   !.quantity = 3, !.sales_amount = 30],
     [Line1 EXCEPT !.order_number = SqlNull]}

Star(dates, sales) ==
    [dim_date    |-> dates,
     dim_product |-> Table(StarProducts),
     dim_user    |-> Table(StarUsers),
     dim_rider   |-> Table(StarRiders),
     fact_sales  |-> Table(sales)]

\* the tables a query function joins to fact_sales
Joins(fn) ==
    CASE fn \in {"rollup_sales_by_year", "rollup_sales_by_quarter",
                 "drilldown_year_to_month"} -> {"dim_date"}
      [] fn = "slice_by_year" -> {"dim_date", "dim_product", "dim_user"}
      [] OTHER -> {"dim_date", "dim_product", "dim_user", "dim_rider"}

\* JOIN t ON fs.<first> = t.<second>
JoinOn(t) ==
    CASE t = "dim_date"    -> <<"date_key", "date_key">>
      [] t = "dim_product" -> <<"product_key", "product_key">>
      [] t = "dim_user"    -> <<"customer_key", "user_key">>
      [] t = "dim_rider"   -> <<"rider_key", "rider_key">>

\* the GROUP BY columns
GroupBy(fn) ==
    CASE fn = "rollup_sales_by_year"    -> {"year"}
      [] fn = "rollup_sales_by_quarter" -> {"year", "quarter"}
      [] fn = "drilldown_year_to_month" -> {"year", "month", "month_name"}
      [] fn = "slice_by_year" -> {"year", "month_name", "category", "city"}
      [] fn = "slice_by_courier" ->
             {"courier_name", "year", "month_name", "category", "city",
              "vehicleType"}
      [] OTHER ->
             {"year", "month_name", "category", "product_name", "city",
              "courier_name", "vehicleType"}

TableOf(c) ==
    CASE c \in {"year", "month", "month_name", "quarter"} -> "dim_date"
      [] c \in {"category", "product_name"}               -> "dim_product"
      [] c = "city"                                       -> "dim_user"
      [] c \in {"courier_name", "vehicleType"}            -> "dim_rider"
      [] OTHER                                            -> "fact_sales"

LongestTable(w) ==
    CHOOSE n \in 0..(MaxFacts + 3) :
        /\ \A t \in DOMAIN w : Len(w[t].rows) <= n
        /\ \E t \in DOMAIN w : Len(w[t].rows) = n

\* FROM fact_sales fs JOIN ...: a joined row is one row of each table, the
\* rows being equal on the join columns
JoinedRows(w, fn) ==
    {j \in [Joins(fn) \cup {"fact_sales"} -> 1..LongestTable(w)] :
        /\ \A t \in DOMAIN j : j[t] <= Len(w[t].rows)
        /\ \A t \in Joins(fn) :
              w.fact_sales.rows[j.fact_sales][JoinOn(t)[1]]
                  = w[t].rows[j[t]][JoinOn(t)[2]]}

Col(w, j, c) == w[TableOf(c)].rows[j[TableOf(c)]][c]

\* the arguments of a call other than _engine, absent ones at their default
NoArgs ==
    [year |-> 0, courier |-> <<>>, years |-> {}, categories |-> {},
     cities |-> {}, couriers |-> {}, page |-> 1, page_size |-> 1000]

\* the WHERE clause
Where(fn, a, w, j) ==
    CASE fn \in {"drilldown_year_to_month", "slice_by_year"} ->
             Col(w, j, "year") = a.year
      [] fn = "slice_by_courier" -> Col(w, j, "courier_name") = a.courier
      [] fn \in {"dice_multi_dimension", "olap_dice_multi_dimension"} ->
             /\ a.years # {} => Col(w, j, "year") \in a.years
             /\ a.categories # {} => Col(w, j, "category") \in a.categories
             /\ a.cities # {} => Col(w, j, "city") \in a.cities
             /\ a.couriers # {} => Col(w, j, "courier_name") \in a.couriers
      [] OTHER -> TRUE

\* SUM(c) over the joined rows J
RECURSIVE Sum(_, _, _)
Sum(w, J, c) ==
    IF J = {} THEN 0
    ELSE LET j == CHOOSE x \in J : TRUE
         IN  Col(w, j, c) + Sum(w, J \ {j}, c)

\* COUNT(fs.order_number) and COUNT(DISTINCT fs.order_number)
Count(w, J) == Cardinality({j \in J : Col(w, j, "order_number") # SqlNull})

CountDistinct(w, J) ==
    Cardinality({Col(w, j, "order_number") : j \in J} \ {SqlNull})

\* the total_orders column: COUNT(DISTINCT fs.order_number), but
\* COUNT(fs.order_number) in slice_queries.py and dice_queries.py
total_orders(fn, w, J) ==
    IF fn \in {"slice_by_year", "slice_by_courier", "dice_multi_dimension"}
    THEN Count(w, J)
    ELSE CountDistinct(w, J)

\* the quotient n / d, or NULL
Quotient(n, d) ==
    IF d = 0 THEN [null |-> TRUE, n |-> 0, d |-> 0]
    ELSE [null |-> FALSE, n |-> n, d |-> d]

\* AOV_EXPR, SUM(fs.sales_amount)/NULLIF(COUNT(...), 0); the AOV_EXPR of
\* slice_by_courier counts without DISTINCT
avg_order_value(fn, w, J) ==
    Quotient(Sum(w, J, "sales_amount"),
             IF fn = "slice_by_courier" THEN Count(w, J)
             ELSE CountDistinct(w, J))

\* the query functions that select no avg_order_value
WithoutAverage == {"slice_by_year", "olap_dice_multi_dimension"}

\* the rows of SELECT ... WHERE ... GROUP BY ...
GroupRows(fn, a, w) ==
    LET J      == {j \in JoinedRows(w, fn) : Where(fn, a, w, j)}
        key(j) == [c \in GroupBy(fn) |-> Col(w, j, c)]
    IN  {[c \in {"key", "total_orders", "total_sales", "total_quantity",
                  "avg_order_value"}
                    \ (IF fn \in WithoutAverage THEN {"avg_order_value"}
                       ELSE {}) |->
            CASE c = "key"            -> k
              [] c = "total_orders"   ->
                     total_orders(fn, w, {j \in J : key(j) = k})
              [] c = "total_sales"    ->
                     Sum(w, {j \in J : key(j) = k}, "sales_amount")
              [] c = "total_quantity" ->
                     Sum(w, {j \in J : key(j) = k}, "quantity")
              [] c = "avg_order_value" ->
                     avg_order_value(fn, w, {j \in J : key(j) = k})] :
            k \in {key(j) : j \in J}}

AlphabeticalMonths ==
    <<"April", "August", "December", "February", "January", "July", "June",
      "March", "May", "November", "October", "September">>

\* the ORDER BY columns of a row, a descending one negated
SortKey(fn, r) ==
    CASE fn = "rollup_sales_by_year"    -> <<r.key.year>>
      [] fn = "rollup_sales_by_quarter" -> <<r.key.year, r.key.quarter>>
      [] fn = "drilldown_year_to_month" -> <<r.key.month>>
      [] fn = "slice_by_courier" ->
             <<r.key.year,
               CHOOSE i \in 1..12 : AlphabeticalMonths[i] = r.key.month_name,
               0 - r.total_sales>>
      [] OTHER -> <<0 - r.total_sales>>

LexLess(a, b) ==
    \E i \in 1..Len(a) : a[i] < b[i] /\ \A k \in 1..(i - 1) : a[k] = b[k]

\* the orders in which the server may return the rows R under ORDER BY: rows
\* equal on the ORDER BY columns come in any order, anew at each execution
Orderings(fn, R) ==
    {s \in [1..Cardinality(R) -> R] :
        /\ \A i, k \in DOMAIN s : s[i] = s[k] => i = k
        /\ \A i, k \in DOMAIN s :
              i < k => ~LexLess(SortKey(fn, s[k]), SortKey(fn, s[i]))}

\* the LIMIT of olap_queries.dice_multi_dimension
RowLimit == 1000

Min(a, b) == IF a < b THEN a ELSE b

\* LIMIT ... OFFSET ... of the ordered rows s
Limit(fn, a, s) ==
    CASE fn = "dice_multi_dimension" ->
             LET page   == IF a.page < 1 THEN 1 ELSE a.page
                 offset == (page - 1) * a.page_size
             IN  SubSeq(s, offset + 1, Min(offset + a.page_size, Len(s)))
      [] fn = "olap_dice_multi_dimension" -> SubSeq(s, 1, Min(RowLimit, Len(s)))
      [] OTHER -> s

\* the server rejects the statement: dd.quarter on a dim_date without that
\* column, or a quote inside a value olap_queries.py pastes between quotes
sql_error(fn, a, w) ==
    \/ "quarter" \in GroupBy(fn) /\ w.dim_date.created_by = "to_sql"
    \/ /\ fn = "olap_dice_multi_dimension"
       /\ \E v \in a.categories \cup a.cities \cup a.couriers :
              \E i \in 1..Len(v) : v[i] = "'"

\* what a query function returns: the frame, the duration (1 for any
\* positive time), total_rows (dice_queries.py only) and the query text
Result(df, duration, total_rows, query) ==
    [df |-> df, duration |-> duration, total_rows |-> total_rows,
     query |-> query]

\* the try branch when the server returns the groups in the order s: the
\* frame of the page, the time it took and, in dice_queries.py, the count
\* of all groups
fetch(fn, a, s) ==
    Result(Limit(fn, a, s), 1,
           IF fn = "dice_multi_dimension" THEN Len(s) ELSE 0,
           IF fn = "dice_multi_dimension" THEN "" ELSE fn)

\* the body of a query function: the early return on a None engine, the
\* except branch, or the try branch
run_query(fn, a, engine, w) ==
    IF engine = "none" THEN {Result(<<>>, 0, 0, "")}
    ELSE IF engine = "broken" \/ sql_error(fn, a, w)
    THEN {Result(<<>>, 0, 0, IF fn = "dice_multi_dimension" THEN "" ELSE fn)}
    ELSE {fetch(fn, a, s) : s \in Orderings(fn, GroupRows(fn, a, w))}

\* a call: the function and its hashed arguments (st.cache_data leaves out
\* the parameters whose name starts with an underscore, here _engine)
Call(fn, a) == [fn |-> fn, args |-> a]

NoCall == [key |-> Call("none", NoArgs), hit |-> FALSE,
           value |-> Result(<<>>, 0, 0, ""), pages |-> <<>>]

\* the dashboard before any call, with engine e
Session(e) == [engine |-> e, cache |-> <<>>, last |-> NoCall, calls |-> 0]

\* the dashboard is not running
NoApp == Session("none")

\* @st.cache_data: the stored value of the key, or else the value the
\* function returns, which is stored
Query(key) ==
    /\ \E v \in (IF key \in DOMAIN app.cache THEN {app.cache[key]}
                 ELSE run_query(key.fn, key.args, app.engine, warehouse)) :
          app' = [app EXCEPT
                    !.cache = [k \in DOMAIN app.cache \cup {key} |->
                                  IF k = key THEN v ELSE app.cache[k]],
                    !.last  = [key |-> key, hit |-> key \in DOMAIN app.cache,
                               value |-> v, pages |-> <<>>],
                    !.calls = @ + 1]
    /\ UNCHANGED <<pc, env, source_db, source_df, transformed_df, warehouse,
                   outcome, previous_run>>

DiceFilters ==
    {NoArgs, [NoArgs EXCEPT !.years = {2020}],
     [NoArgs EXCEPT !.categories = {s_Toys}, !.couriers = {S_DHL, s_FEDEX}],
     [NoArgs EXCEPT !.cities = {S_OBay}]}

\* the calls of a first page view
OlapCalls ==
    {Call(fn, NoArgs) : fn \in {"rollup_sales_by_year", "rollup_sales_by_quarter"}}
        \cup {Call(fn, [NoArgs EXCEPT !.year = y]) :
                 fn \in {"drilldown_year_to_month", "slice_by_year"},
                 y \in {2020, 2021}}
        \cup {Call("slice_by_courier", [NoArgs EXCEPT !.courier = s_FEDEX])}
        \cup {Call("olap_dice_multi_dimension", a) : a \in DiceFilters}
        \cup {Call("dice_multi_dimension", a) : a \in DiceFilters}

OlapQuery == \E key \in OlapCalls : app.calls = 0 /\ Query(key)

\* dice_multi_dimension of dice_queries.py called for page 0 and for each
\* of the pages 1 .. ceil(total_rows / page_size) (page 1 when there is no
\* row), every call a try branch of its own as the engine works and no
\* statement of dice_queries.py is rejected
DicePages ==
    /\ app.calls = 0
    /\ app.engine = "ok"
    /\ \E a \in DiceFilters, size \in 1..2 :
          \E groups \in {GroupRows("dice_multi_dimension", a, warehouse)} :
          \E npages \in {IF groups = {} THEN 1
                         ELSE (Cardinality(groups) + size - 1) \div size} :
          \E s \in [0..npages -> Orderings("dice_multi_dimension", groups)] :
          \E pages \in {[p \in 0..npages |->
                            fetch("dice_multi_dimension",
                                  [a EXCEPT !.page = p, !.page_size = size],
                                  s[p])]} :
              app' = [app EXCEPT
                        !.cache = [k \in {Call("dice_multi_dimension",
                                               [a EXCEPT !.page = p,
                                                         !.page_size = size]) :
                                             p \in 0..npages} |->
                                      pages[k.args.page]],
                        !.last  = [key |-> Call("dice_multi_dimension",
                                                [a EXCEPT !.page_size = size]),
                                   hit |-> FALSE, value |-> pages[1],
                                   pages |-> pages],
                        !.calls = npages + 1]
    /\ UNCHANGED <<pc, env, source_db, source_df, transformed_df, warehouse,
                   outcome, previous_run>>

\* the query functions alone: one page view on every warehouse of at most
\* MaxFacts order lines
InitOlap ==
    /\ pc = At("main", "done")
    /\ env = [source |-> TRUE, warehouse |-> TRUE, faults |-> FALSE,
              users_csv |-> AbsentCsv]
    /\ source_db = EmptySource
    /\ source_df = NoneDF
    /\ transformed_df = NoneDF
    /\ warehouse \in {Star(d, f) : d \in DateTables,
                                   f \in SeqUpTo(StarSales, MaxFacts)}
    /\ outcome = NotRun
    /\ previous_run = NoRun
    /\ app = Session("ok")

NextOlap ==
    \/ OlapQuery
    \/ DicePages

SpecOlap == InitOlap /\ [][NextOlap]_vars

\* the calls of the dashboard session
DashCalls ==
    {Call("rollup_sales_by_year", NoArgs),
     Call("slice_by_year", [NoArgs EXCEPT !.year = 2020])}

DashQuery == \E key \in DashCalls : app.calls < MaxCalls /\ Query(key)

\* a run of the ETL reloads fact_sales with one more order line
EtlReload ==
    /\ Len(warehouse.fact_sales.rows) < MaxFacts
    /\ \E line \in {Line1, [Line1 EXCEPT !.order_number = "O3",
                                         !.date_key = 20210101]} :
          warehouse' = [warehouse EXCEPT
                          !.fact_sales.rows = Append(@, line)]
    /\ app' = [app EXCEPT !.last = NoCall]
    /\ UNCHANGED <<pc, env, source_db, source_df, transformed_df, outcome,
                   previous_run>>

\* the Clear Query Cache button: st.cache_data.clear()
ClearCache ==
    /\ app.cache # <<>>
    /\ app' = [app EXCEPT !.cache = <<>>]
    /\ UNCHANGED <<pc, env, source_db, source_df, transformed_df, warehouse,
                   outcome, previous_run>>

\* the ttl of an entry runs out
CacheExpires ==
    /\ \E key \in DOMAIN app.cache :
          app' = [app EXCEPT
                    !.cache = [k \in DOMAIN app.cache \ {key} |-> app.cache[k]]]
    /\ UNCHANGED <<pc, env, source_db, source_df, transformed_df, warehouse,
                   outcome, previous_run>>

\* engine = get_warehouse_engine() of a rerun of app.py gives another
\* engine: None, a working one, or one whose statements fail
ChangeEngine ==
    /\ \E e \in {"none", "ok", "broken"} \ {app.engine} :
          app' = [app EXCEPT !.engine = e, !.last = NoCall]
    /\ UNCHANGED <<pc, env, source_db, source_df, transformed_df, warehouse,
                   outcome, previous_run>>

\* a dashboard session over a warehouse that the ETL reloads
InitDashboard ==
    /\ pc = At("main", "done")
    /\ env = [source |-> TRUE, warehouse |-> TRUE, faults |-> FALSE,
              users_csv |-> AbsentCsv]
    /\ source_db = EmptySource
    /\ source_df = NoneDF
    /\ transformed_df = NoneDF
    /\ warehouse \in {Star(Table(StarDates), f) : f \in {<<>>, <<Line1>>}}
    /\ outcome = NotRun
    /\ previous_run = NoRun
    /\ app \in {Session(e) : e \in {"none", "ok", "broken"}}

NextDashboard ==
    \/ DashQuery
    \/ EtlReload
    \/ ClearCache
    \/ CacheExpires
    \/ ChangeEngine

SpecDashboard == InitDashboard /\ [][NextDashboard]_vars

-----------------------------------------------------------------------------
(* The specifications of main *)

\* a full run of main
Init ==
    /\ pc = At("dim_rider", "extract")
    /\ env \in [source : BOOLEAN, warehouse : BOOLEAN, faults : {TRUE},
                users_csv : {AbsentCsv}]
    /\ source_db \in RunSources
    /\ source_df = NoneDF
    /\ transformed_df = NoneDF
    /\ warehouse \in {FreshWarehouse, OldWarehouse}
    /\ outcome = NotRun
    /\ previous_run = NoRun
    /\ app = NoApp

Next ==
    \/ ExtractRiders
    \/ ExtractUsers
    \/ ExtractProducts
    \/ GenerateDates
    \/ ExtractSales
    \/ TransformRider
    \/ TransformUser
    \/ TransformProduct
    \/ TransformDate
    \/ TransformSales
    \/ PrintHead
    \/ LoadToWarehouse

Spec == Init /\ [][Next]_vars

\* bound on the number of runs of main against the same source
MaxRuns == 2

\* the operator starts main again after it has returned
Rerun ==
    /\ pc = At("main", "done")
    /\ previous_run.n + 1 < MaxRuns
    /\ previous_run' = [n |-> previous_run.n + 1, warehouse |-> warehouse,
                        outcome |-> outcome]
    /\ pc' = At("dim_rider", "extract")
    /\ source_df' = NoneDF
    /\ transformed_df' = NoneDF
    /\ outcome' = NotRun
    /\ UNCHANGED <<app, env, source_db, warehouse>>

\* runs of main in succession against an unchanged source, with a warehouse
\* server that fails no statement
InitReload ==
    /\ pc = At("dim_rider", "extract")
    /\ env = [source |-> TRUE, warehouse |-> TRUE, faults |-> FALSE,
              users_csv |-> AbsentCsv]
    /\ source_db \in RunSources
    /\ source_df = NoneDF
    /\ transformed_df = NoneDF
    /\ warehouse \in {FreshWarehouse, OldWarehouse}
    /\ outcome = NotRun
    /\ previous_run = NoRun
    /\ app = NoApp

NextReload ==
    \/ Next
    \/ Rerun

SpecReload == InitReload /\ [][NextReload]_vars

\* each transformer alone, on every source table of at most MaxRows rows
InitTransform ==
    /\ pc \in {At(fn, "extract") : fn \in Tables}
    /\ env \in [source : BOOLEAN, warehouse : {TRUE}, faults : {TRUE},
                users_csv : IF pc.fn = "dim_user" THEN CsvFiles
                            ELSE {AbsentCsv}]
    /\ source_db \in
         CASE pc.fn = "dim_rider" ->
                  {[EmptySource EXCEPT !.riders = b] : b \in SeqUpTo(RawRiders, MaxRows)}
           [] pc.fn = "dim_user" ->
                  {[EmptySource EXCEPT !.users = b] : b \in SeqUpTo(RawUsers, MaxRows)}
           [] pc.fn = "dim_product" ->
                  {[EmptySource EXCEPT !.products = b] : b \in SeqUpTo(RawProducts, MaxRows)}
           [] pc.fn = "fact_sales" ->
                  {[EmptySource EXCEPT !.sales = b] : b \in SeqUpTo(RawSales, MaxRows)}
           [] OTHER -> {EmptySource}
    /\ source_df = NoneDF
    /\ transformed_df = NoneDF
    /\ warehouse = FreshWarehouse
    /\ outcome = NotRun
    /\ previous_run = NoRun
    /\ app = NoApp

NextTransform ==
    \/ ExtractRiders
    \/ ExtractUsers
    \/ ExtractProducts
    \/ GenerateDates
    \/ ExtractSales
    \/ TransformRider
    \/ TransformUser
    \/ TransformProduct
    \/ TransformDate
    \/ TransformSales

SpecTransform == InitTransform /\ [][NextTransform]_vars

-----------------------------------------------------------------------------
(* Properties of the transformers (specification SpecTransform) *)

\* the transformer of table function fn has returned a frame
Transformed(fn) ==
    /\ pc = At(fn, "print")
    /\ ~transformed_df.isNone

Out == transformed_df.rows

\* the order line of the query result that carries index label i
SourceSale(i) == source_db.sales[i + 1]

NullKeyed(r) ==
    isnull(r.userId) \/ isnull(r.ProductId) \/ isnull(r.deliveryRiderId)

\* sales_amount of r is round(quantity * unit_price, 2); a NaN product (an
\* unfilled NaN price) is matched by a NaN sales_amount
AmountIsProduct(r) ==
    IF isnull(r.quantity) \/ isnull(r.unit_price)
    THEN isnull(r.sales_amount)
    ELSE r.sales_amount = Round2(Mul(r.quantity, r.unit_price))

\* C1: every row output by transform_fact_sales has
\* sales_amount = round(quantity * unit_price, 2), imputed rows included
C1_SalesAmountIsProduct ==
    Transformed("fact_sales") =>
        \A i \in 1..Len(Out) : AmountIsProduct(Out[i])

\* v is an 8-digit integer year*10000 + month*100 + day of a calendar date
IsDateKey(v) ==
    /\ v.k = "num"
    /\ v.d = 1
    /\ v.n \in 10000000..99999999
    /\ ValidDate(v.n \div 10000, (v.n \div 100) % 100, v.n % 100)

\* C3: every row output by transform_fact_sales and by transform_dim_date
\* has as date_key the 8-digit integer YYYYMMDD of a calendar date, also
\* when the delivery date was null, not a string or in no accepted format
C3_DateKeyIsYYYYMMDD ==
    (Transformed("fact_sales") \/ Transformed("dim_date")) =>
        \A i \in 1..Len(Out) : IsDateKey(Out[i].date_key)

\* the delivery dates of the batch that parse, as date keys, except row i's
OtherDateKeys(i) ==
    LET n == Len(source_db.sales)
        J == {j \in 1..n : j # i + 1
                 /\ ~parse_date_formats(source_db.sales[j].deliveryDate).nat}
    IN  [j \in J |-> sales_date_key(source_db.sales[j].deliveryDate)]

\* the most frequent values of a function with a finite domain
Modes(f) ==
    LET count(x) == Cardinality({j \in DOMAIN f : f[j] = x})
    IN  {f[j] : j \in {j \in DOMAIN f :
                          \A h \in DOMAIN f : count(f[h]) <= count(f[j])}}

\* C4: an output row whose delivery date did not parse carries as date_key
\* a most frequent date key of the other rows of its batch
C4_UnparsedDateGetsMode ==
    Transformed("fact_sales") =>
        \A i \in 1..Len(Out) :
            (/\ parse_date_formats(SourceSale(Out[i].idx).deliveryDate).nat
             /\ DOMAIN OtherDateKeys(Out[i].idx) # {})
            => Out[i].date_key \in Modes(OtherDateKeys(Out[i].idx))

\* the product_code cell as the transformer keys it
CodeOf(r) == str_apply(strip, astype_str(r.ProductCode))

UpdatedOf(r) == ts_cell(to_datetime_coerce(r.UpdatedAt))

\* source products i and j, and no third one, share a product_code, carry
\* different update times and have names the final clean-up keeps
DuplicatePair(i, j) ==
    LET P == source_db.products
    IN  /\ i # j
        /\ ~isnull(P[i].ProductCode) /\ ~isnull(P[j].ProductCode)
        /\ CodeOf(P[i]) = CodeOf(P[j])
        /\ \A h \in 1..Len(P) : CodeOf(P[h]) = CodeOf(P[i]) => h \in {i, j}
        /\ ~isnull(UpdatedOf(P[i])) /\ ~isnull(UpdatedOf(P[j]))
        /\ UpdatedOf(P[i]).n < UpdatedOf(P[j]).n
        /\ P[i].Name.k = "str" /\ Len(strip(P[i].Name.s)) > 1
        /\ P[j].Name.k = "str" /\ Len(strip(P[j].Name.s)) > 1

\* C5: of two products sharing a product_code with different updated_at,
\* transform_dim_product keeps exactly one, the one updated later
C5_LaterUpdateWins ==
    Transformed("dim_product") =>
        \A i, j \in 1..Len(source_db.products) :
            DuplicatePair(i, j) =>
                LET P    == source_db.products
                    kept == {h \in 1..Len(Out) : Out[h].product_code = CodeOf(P[j])}
                IN  /\ Cardinality(kept) = 1
                    /\ \A h \in kept : /\ Out[h].updated_at = UpdatedOf(P[j])
                                       /\ Out[h].product_key = P[j].ID

\* C6: no dimension transformer outputs a null primary key, and a source row
\* with a null natural key (rider id, user id, product_code) is not output
C6_NoNullDimensionKeys ==
    /\ Transformed("dim_rider") =>
          /\ \A h \in 1..Len(Out) : ~isnull(Out[h].rider_key)
          /\ \A i \in 1..Len(source_db.riders) :
                isnull(source_db.riders[i].id) => (i - 1) \notin Index(transformed_df)
    /\ Transformed("dim_user") =>
          \A h \in 1..Len(Out) : ~isnull(Out[h].user_key)
    /\ Transformed("dim_product") =>
          /\ \A h \in 1..Len(Out) : ~isnull(Out[h].product_key)
          /\ \A h \in 1..Len(Out) :
                \E i \in 1..Len(source_db.products) :
                    /\ ~isnull(source_db.products[i].ProductCode)
                    /\ Out[h].product_code = CodeOf(source_db.products[i])

\* C7: no output row has a null customer_key, product_key or rider_key, and
\* no order line with a null key is in the output
C7_NoNullKeys ==
    Transformed("fact_sales") =>
        /\ \A i \in 1..Len(Out) :
              /\ ~isnull(Out[i].customer_key)
              /\ ~isnull(Out[i].product_key)
              /\ ~isnull(Out[i].rider_key)
        /\ \A i \in 1..Len(source_db.sales) :
              NullKeyed(source_db.sales[i]) => (i - 1) \notin Index(transformed_df)

\* a batch with a null-keyed order line and one that is kept was transformed
C7_Witness ==
    /\ Transformed("fact_sales")
    /\ \E i \in 1..Len(source_db.sales) : NullKeyed(source_db.sales[i])
    /\ Out # <<>>

-----------------------------------------------------------------------------
(* Properties of the run (specification Spec) *)

\* main has returned and every load committed
RunComplete ==
    /\ pc = At("main", "done")
    /\ \A t \in Tables : outcome[t] = "committed"

KeysOf(table_name, col) ==
    {warehouse[table_name].rows[i][col] :
        i \in 1..Len(warehouse[table_name].rows)}

\* C2: after a complete run every fact_sales row references a row of each
\* of the four dimensions
C2_FactKeysReferenceDimensions ==
    RunComplete =>
        \A i \in 1..Len(warehouse.fact_sales.rows) :
            LET r == warehouse.fact_sales.rows[i]
            IN  /\ r.customer_key \in KeysOf("dim_user", "user_key")
                /\ r.product_key \in KeysOf("dim_product", "product_key")
                /\ r.rider_key \in KeysOf("dim_rider", "rider_key")
                /\ r.date_key \in KeysOf("dim_date", "date_key")

\* C8: a table whose extraction returned None is skipped without error:
\* the run does not end in an exception at that table
C8_NoneExtractIsSkipped ==
    (pc.fn \in {"dim_rider", "dim_user", "dim_product", "fact_sales"}
        /\ pc.at # "extract" /\ source_df.isNone)
    => pc.at # "raised"

\* C9: a load_to_warehouse call that fails leaves its table as it was
C9_FailedLoadRestoresTable ==
    [][\A t \in Tables :
          (outcome[t] # "rolled_back" /\ outcome'[t] = "rolled_back")
          => warehouse'[t] = warehouse[t]]_vars

\* C10: after the load of a table has failed the run does not go on to the
\* table functions that follow it
C10_FailedLoadStopsRun ==
    \A t \in Tables :
        outcome[t] = "rolled_back" =>
            (pc.fn = "main" \/ Pos(pc.fn) <= Pos(t)) /\ pc # At("main", "done")

\* the step of load_to_warehouse(transformed_df, t) that commits
CommittedLoad(t) ==
    /\ pc = At(t, "load")
    /\ outcome'[t] = "committed"

\* C11: a successful load_to_warehouse leaves in the table exactly the rows
\* of the DataFrame; it drops and recreates every table other than
\* fact_sales, and truncates fact_sales without recreating it
C11_ReplaceOrTruncateAppend ==
    [][\A t \in Tables :
          CommittedLoad(t) =>
              /\ warehouse'[t].exists
              /\ warehouse'[t].rows = sql_rows(transformed_df.rows)
              /\ t = "fact_sales" =>
                     warehouse'[t].created_by = warehouse[t].created_by
              /\ t # "fact_sales" => warehouse'[t].created_by = "to_sql"]_vars

\* a dimension and the fact table were loaded over the rows of an earlier run
C11_Witness ==
    /\ outcome.dim_rider = "committed"
    /\ outcome.fact_sales = "committed"
    /\ warehouse.fact_sales.rows # <<>>
    /\ warehouse.fact_sales.created_by = "schema"
    /\ warehouse.dim_rider.created_by = "to_sql"
    /\ \E i \in 1..Len(warehouse.fact_sales.rows) :
          warehouse.fact_sales.rows[i] \notin
              {OldWarehouse.fact_sales.rows[j] :
                  j \in 1..Len(OldWarehouse.fact_sales.rows)}

AllCommitted(o) == \A t \in Tables : o[t] = "committed"

\* main has returned from a run in which every load committed, after a run
\* in which every load committed
ReloadedTwice ==
    /\ pc = At("main", "done")
    /\ previous_run.n >= 1
    /\ AllCommitted(previous_run.outcome)
    /\ AllCommitted(outcome)

\* C12: a second full run against the unchanged source leaves every table
\* with the rows the first run left; fact_sales rows are not duplicated
C12_ReloadIsIdempotent ==
    ReloadedTwice =>
        \A t \in Tables : warehouse[t].rows = previous_run.warehouse[t].rows

\* two complete runs over a source with order lines
C12_Witness ==
    /\ ReloadedTwice
    /\ warehouse.fact_sales.rows # <<>>

\* the run has extracted the source rows of table u
HasExtracted(u) ==
    \/ pc.fn = "main"
    \/ Pos(u) < Pos(pc.fn)
    \/ pc.fn = u /\ pc.at # "extract"

\* the run has called the transformer of table u
HasTransformed(u) ==
    \/ pc.fn = "main"
    \/ Pos(u) < Pos(pc.fn)
    \/ pc.fn = u /\ pc.at \notin {"extract", "transform"}

\* the run has called load_to_warehouse for table u
HasLoaded(u) == outcome[u] # "not_run"

\* C13: every table is extracted before any transformer is called, and
\* every table is transformed before any table is loaded
C13_ThreeStrictPhases ==
    /\ (\E u \in Tables : HasTransformed(u)) => \A u \in Tables : HasExtracted(u)
    /\ (\E u \in Tables : HasLoaded(u)) => \A u \in Tables : HasTransformed(u)

\* C13 as amended: the run handles one table at a time in the order of
\* main; a table's load call has been made exactly when the run has left
\* that table's function, so before the next table is extracted
C13_OneTableAtATime ==
    \A u \in Tables :
        HasLoaded(u) <=> (pc.fn = "main" \/ Pos(u) < Pos(pc.fn))

\* the four dimensions are loaded and fact_sales is about to be extracted
C13_Witness ==
    /\ pc = At("fact_sales", "extract")
    /\ \A u \in Tables \ {"fact_sales"} : outcome[u] = "committed"

\* the continent the rows of csv list for a country: that of the first row
\* whose country cell is the country
Listed(csv, country) ==
    LET countries  == csv_column(csv, country_col(csv))
        continents == csv_column(csv, continent_col(csv))
        rows       == {i \in 1..Len(csv.rows) : countries[i] = country}
    IN  IF rows = {} THEN Str(s_Other)
        ELSE continents[CHOOSE i \in rows : \A h \in rows : i <= h]

\* some source user with the key of output row o satisfies P
FromUser(o, P(_)) ==
    \E i \in 1..Len(source_db.users) :
        source_db.users[i].id = o.user_key /\ P(source_db.users[i])

\* C14: with a users.csv that has a country and a continent column, under
\* either of their names, every output row has the user's title-cased
\* country and the continent the CSV lists for it, Other when it lists none
C14_CsvContinentOverride ==
    (Transformed("dim_user") /\ mapping_successful(users_csv)) =>
        \A h \in 1..Len(Out) :
            /\ FromUser(Out[h], LAMBDA u : Out[h].country = location(u.country))
            /\ FromUser(Out[h], LAMBDA u :
                   Out[h].continent = Listed(users_csv, location(u.country)))

\* the continent of the dictionary entry whose key is the country
DictionaryContinent(country) ==
    LET hits == {i \in 1..Len(country_to_continent) :
                    country.s \in country_to_continent[i].countries}
    IN  IF hits = {} THEN Str(s_Other)
        ELSE Str(country_to_continent[CHOOSE i \in hits : TRUE].continent)

\* C15: with users.csv absent, unreadable or without a country or a
\* continent column the transformer returns its frame, and every row has
\* the dictionary's continent for its country, Other when the dictionary
\* has no such key; no continent is null
C15_DictionaryFallback ==
    (pc = At("dim_user", "print") /\ ~source_df.isNone
        /\ ~mapping_successful(users_csv)) =>
        /\ ~transformed_df.isNone
        /\ \A h \in 1..Len(Out) :
              /\ ~isnull(Out[h].continent)
              /\ Out[h].continent = DictionaryContinent(Out[h].country)

\* users of a listed and of an unlisted country were transformed with a
\* users.csv that has no continent column
C15_Witness ==
    /\ Transformed("dim_user")
    /\ users_csv.state = "ok"
    /\ ~mapping_successful(users_csv)
    /\ \E h \in 1..Len(Out) : Out[h].continent = Str(S_Asia)
    /\ \E h \in 1..Len(Out) : Out[h].continent = Str(s_Other)

\* the source rider of output row o
SourceRider(o) == source_db.riders[o.idx + 1]

\* the table of the claim: m, M, male, Male; f, F, female, Female; Other
ListedGender(g) ==
    CASE g.k = "str" /\ g.s \in {s_m, <<"M">>, s_lc_male, s_Male} -> Str(s_Male)
      [] g.k = "str" /\ g.s \in {s_f, <<"F">>, s_lc_female, s_Female}
             -> Str(s_Female)
      [] OTHER -> Str(s_Other)

\* the table read without regard to letter case
CaselessGender(g) ==
    CASE g.k = "str" /\ lower(g.s) \in {s_m, s_lc_male}   -> Str(s_Male)
      [] g.k = "str" /\ lower(g.s) \in {s_f, s_lc_female} -> Str(s_Female)
      [] OTHER -> Str(s_Other)

\* every rider and user row has the gender G gives for its source gender
GenderIs(G(_)) ==
    /\ Transformed("dim_rider") =>
          \A h \in 1..Len(Out) : Out[h].gender = G(SourceRider(Out[h]).gender)
    /\ Transformed("dim_user") =>
          \A h \in 1..Len(Out) :
              FromUser(Out[h], LAMBDA u : Out[h].gender = G(u.gender))

\* C16: m, M, male, Male give Male; f, F, female, Female give Female; every
\* other value, null included, gives Other
C16_GenderTable == GenderIs(ListedGender)

\* C16 as amended: a gender whose lower-cased text is m or male gives Male,
\* one whose lower-cased text is f or female gives Female, every other
\* value, null included, gives Other
C16_GenderCaseless == GenderIs(CaselessGender)

\* riders with the genders MALE and null were transformed
C16_Witness ==
    /\ Transformed("dim_rider")
    /\ \E h \in 1..Len(Out) :
          SourceRider(Out[h]).gender = Str(S_MALE) /\ Out[h].gender = Str(s_Male)
    /\ \E h \in 1..Len(Out) :
          isnull(SourceRider(Out[h]).gender) /\ Out[h].gender = Str(s_Other)

\* s is only blanks
Blank(s) == \A i \in 1..Len(s) : s[i] = " "

\* t is s without its leading and trailing blanks
TrimmedOf(s, t) ==
    /\ t = <<>> \/ (t[1] # " " /\ t[Len(t)] # " ")
    /\ \E i \in 0..Len(s) :
          /\ i + Len(t) <= Len(s)
          /\ Blank(SubSeq(s, 1, i))
          /\ SubSeq(s, i + 1, i + Len(t)) = t
          /\ Blank(SubSeq(s, i + Len(t) + 1, Len(s)))

\* a and b are the same text up to letter case
SameNoCase(a, b) ==
    Len(a) = Len(b) /\ \A i \in 1..Len(a) : LowerChar(a[i]) = LowerChar(b[i])

\* o is t with the first letter upper-cased and the rest lower-cased
FirstUpperRestLower(t, o) ==
    /\ Len(o) = Len(t)
    /\ \A i \in 1..Len(t) :
          o[i] = IF i = 1 THEN UpperChar(t[i]) ELSE LowerChar(t[i])

\* the vehicle type o is the normalised text of the source vehicle type s
NormalisedVehicle(s, o) ==
    \E i \in 0..Len(s), j \in 0..Len(s) :
        LET t == SubSeq(s, i + 1, j)
        IN  /\ TrimmedOf(s, t)
            /\ CASE SameNoCase(t, s_motorbike) -> o = s_Motorcycle
                  [] SameNoCase(t, s_bike)      -> o = s_Bicycle
                  [] SameNoCase(t, s_trike)     -> o = s_Tricycle
                  [] SameNoCase(t, s_lc_car)    -> o = s_Car
                  [] OTHER                      -> FirstUpperRestLower(t, o)

\* C17: a rider's vehicle type text is normalised without regard to case and
\* surrounding blanks: motorbike, bike, trike and car give Motorcycle,
\* Bicycle, Tricycle and Car, any other text gives its trimmed text with the
\* first letter upper-cased and the rest lower-cased
C17_VehicleTypeNormalised ==
    Transformed("dim_rider") =>
        \A h \in 1..Len(Out) :
            LET v == SourceRider(Out[h]).vehicleType
            IN  v.k = "str" =>
                    /\ Out[h].vehicleType.k = "str"
                    /\ NormalisedVehicle(v.s, Out[h].vehicleType.s)

\* riders with the vehicle types '  TRIKE ' and ' vAN' were transformed
C17_Witness ==
    /\ Transformed("dim_rider")
    /\ \E h \in 1..Len(Out) :
          /\ SourceRider(Out[h]).vehicleType = Str(S_TRIKE)
          /\ Out[h].vehicleType = Str(s_Tricycle)
    /\ \E h \in 1..Len(Out) :
          /\ SourceRider(Out[h]).vehicleType = Str(S_vAN)
          /\ Out[h].vehicleType = Str(<<"V", "a", "n">>)

\* the positions of c where FEDEZ starts, in any letter case
FedezAt(c) ==
    {k \in 1..Len(c) :
        k + 4 <= Len(c) /\ SameNoCase(SubSeq(c, k, k + 4), s_FEDEZ)}

\* o is c with every occurrence of FEDEZ, in any case, turned into FEDEX
Corrected(c, o) ==
    /\ Len(o) = Len(c)
    /\ \A i \in 1..Len(c) :
          IF \E k \in FedezAt(c) : k <= i /\ i <= k + 4
          THEN \A k \in FedezAt(c) :
                   k <= i /\ i <= k + 4 => o[i] = s_FEDEX[i - k + 1]
          ELSE o[i] = c[i]

\* C18: every occurrence of FEDEZ in a rider's courier name, in any letter
\* case, is FEDEX in the output, a null courier name gives a row with a null
\* courier name, and correcting the output again changes nothing
C18_CourierCorrected ==
    Transformed("dim_rider") =>
        /\ Len(Out) = Len(source_db.riders)
        /\ \A h \in 1..Len(Out) :
              LET c == SourceRider(Out[h]).courier_name
                  o == Out[h].courier_name
              IN  IF c.k = "str"
                  THEN /\ o.k = "str"
                       /\ Corrected(c.s, o.s)
                       /\ FedezAt(o.s) = {}
                       /\ replace_nocase(o.s, s_FEDEZ, s_FEDEX) = o.s
                  ELSE o = c

\* riders with the courier names 'xFeDeZfedez' and null were transformed
C18_Witness ==
    /\ Transformed("dim_rider")
    /\ \E h \in 1..Len(Out) :
          /\ SourceRider(Out[h]).courier_name = Str(S_xFeDeZfedez)
          /\ Out[h].courier_name =
                 Str(<<"x">> \o s_FEDEX \o s_FEDEX)
    /\ \E h \in 1..Len(Out) : isnull(SourceRider(Out[h]).courier_name)

\* the product name and the source category as the transformer reads them
NameOf(r) == str_apply(strip, astype_str(r.Name))

SourceCategoryOf(r) == title(strip(astype_str(r.Category).s))

\* the category the priority rule gives source product r
RuledCategory(r) ==
    LET inferred == infer_category(NameOf(r))
        mapped   == category_mapping(SourceCategoryOf(r))
    IN  IF inferred # s_Uncategorized THEN inferred
        ELSE IF mapped \in {s_Electronics, s_Toys, s_Bags, s_Makeup, s_Clothing}
             THEN mapped
             ELSE s_Uncategorized

\* output product o is source product r
FromProduct(o, r) ==
    /\ o.product_key = r.ID
    /\ o.product_name = NameOf(r)
    /\ o.product_code = CodeOf(r)
    /\ o.updated_at = UpdatedOf(r)

\* C19: every output product has the category inferred from its name when
\* that is not Uncategorized, otherwise its synonym-mapped source category
\* when that is one of the five allowed ones, otherwise Uncategorized; the
\* category is always one of the six
C19_CategoryPriority ==
    Transformed("dim_product") =>
        \A h \in 1..Len(Out) :
            /\ Out[h].category.k = "str"
            /\ Out[h].category.s \in
                   {s_Electronics, s_Toys, s_Bags, s_Makeup, s_Clothing,
                    s_Uncategorized}
            /\ \E i \in 1..Len(source_db.products) :
                  /\ FromProduct(Out[h], source_db.products[i])
                  /\ Out[h].category = Str(RuledCategory(source_db.products[i]))

\* a product named Phone of category toys came out as Electronics and a
\* product named Kit of category ' bag' came out as Bags
C19_Witness ==
    /\ Transformed("dim_product")
    /\ \E h \in 1..Len(Out), i \in 1..Len(source_db.products) :
          /\ FromProduct(Out[h], source_db.products[i])
          /\ source_db.products[i].Category = Str(S_toys)
          /\ Out[h].category = Str(s_Electronics)
    /\ \E h \in 1..Len(Out), i \in 1..Len(source_db.products) :
          /\ FromProduct(Out[h], source_db.products[i])
          /\ source_db.products[i].Category = Str(S_sp_bag)
          /\ Out[h].category = Str(s_Bags)

\* C20: transform_dim_date outputs one row per input date, and each row
\* carries day name, month name, quarter = ceil(month / 3), the weekend flag
\* and the integer date key
C20_DateRowsCarryQuarter ==
    Transformed("dim_date") =>
        /\ Len(Out) = Len(date_source.rows)
        /\ \A h \in 1..Len(Out) :
              /\ Out[h].full_date = date_source.rows[h].full_date
              /\ {"date_key", "day_name", "month_name", "quarter", "is_weekend"}
                     \subseteq DOMAIN Out[h]
              /\ Out[h].quarter = (Out[h].month + 2) \div 3

\* the h-th day from 2020-01-01, a Wednesday, is a Saturday or a Sunday
FallsOnWeekend(h) == (h + 1) % 7 \in {5, 6}

\* C21: is_weekend is Y exactly for the dates that fall on a Saturday or a
\* Sunday and N for every other date
C21_WeekendFlag ==
    Transformed("dim_date") =>
        \A h \in 1..Len(Out) :
            /\ Out[h].full_date = date_source.rows[h].full_date
            /\ Out[h].is_weekend = IF FallsOnWeekend(h) THEN "Y" ELSE "N"

\* the dates transformed include Friday 2020-01-03 and Saturday 2020-01-04
C21_Witness ==
    /\ Transformed("dim_date")
    /\ \E h \in 1..Len(Out) :
          Out[h].date_key = Num(20200103) /\ Out[h].is_weekend = "N"
    /\ \E h \in 1..Len(Out) :
          Out[h].date_key = Num(20200104) /\ Out[h].is_weekend = "Y"

\* the signup date of source user u
SignupOf(u) == IF isnull(u.createdAt) THEN NaT ELSE to_datetime_coerce(u.createdAt)

\* date a is missing, or b is a date and no earlier than a
NotLater(a, b) == a.nat \/ (~b.nat /\ TsKey(a) <= TsKey(b))

\* C22: transform_dim_user outputs exactly one row per distinct source user
\* id, with or without the CSV merge, and the row of an id is a source row
\* of that id with the latest signup date, a missing date being the earliest
C22_OneRowPerUserLatestSignup ==
    Transformed("dim_user") =>
        LET U == source_db.users
        IN  /\ {Out[h].user_key : h \in 1..Len(Out)} = {U[i].id : i \in 1..Len(U)}
            /\ \A h, g \in 1..Len(Out) : Out[h].user_key = Out[g].user_key => h = g
            /\ \A h \in 1..Len(Out) :
                  \E i \in 1..Len(U) :
                      /\ U[i].id = Out[h].user_key
                      /\ Out[h].signup_date = SignupOf(U[i])
                      /\ Out[h].city = location(U[i].city)
                      /\ \A j \in 1..Len(U) :
                            U[j].id = U[i].id =>
                                NotLater(SignupOf(U[j]), SignupOf(U[i]))

\* two users share an id, one with a signup date and one without, and a
\* users.csv was merged
C22_Witness ==
    /\ Transformed("dim_user")
    /\ mapping_successful(users_csv)
    /\ Len(Out) = 1
    /\ \E i, j \in 1..Len(source_db.users) :
          /\ source_db.users[i].id = source_db.users[j].id
          /\ SignupOf(source_db.users[i]).nat
          /\ ~SignupOf(source_db.users[j]).nat
          /\ Out[1].signup_date = SignupOf(source_db.users[j])

\* a source value that is null, empty or only blanks
NullOrBlank(v) == isnull(v) \/ (v.k = "str" /\ strip(v.s) = <<>>)

\* C23: in every output user row username, city and country are text that
\* is not blank, and each is the literal Unknown when the source value was
\* null or blank
C23_RequiredTextIsUnknown ==
    Transformed("dim_user") =>
        \A h \in 1..Len(Out) :
            /\ \A c \in {"username", "city", "country"} :
                  Out[h][c].k = "str" /\ strip(Out[h][c].s) # <<>>
            /\ \E i \in 1..Len(source_db.users) :
                  LET u == source_db.users[i]
                  IN  /\ u.id = Out[h].user_key
                      /\ Out[h].signup_date = SignupOf(u)
                      /\ \A c \in {"username", "city", "country"} :
                            NullOrBlank(u[c]) => Out[h][c] = Str(s_Unknown)

\* C29: with the built-in dictionary in use, a user whose country is a key
\* of the dictionary other than Unknown, in any letter case, gets the
\* continent the dictionary lists for that key
C29_EveryDictionaryKeyIsMapped ==
    (Transformed("dim_user") /\ ~mapping_successful(users_csv)) =>
        \A h \in 1..Len(Out) :
            \E i \in 1..Len(source_db.users) :
                LET u == source_db.users[i]
                IN  /\ u.id = Out[h].user_key
                    /\ Out[h].signup_date = SignupOf(u)
                    /\ \A e \in 1..Len(country_to_continent) :
                          \A key \in country_to_continent[e].countries :
                              (key # s_Unknown /\ u.country.k = "str"
                                  /\ SameNoCase(u.country.s, key)) =>
                                  Out[h].continent =
                                      Str(country_to_continent[e].continent)

-----------------------------------------------------------------------------
(* Properties of the query functions (specifications SpecOlap, SpecDashboard) *)

\* the call returned from the try branch of the function, not from the cache
Fetched == app.calls = 1 /\ ~app.last.hit /\ app.last.value.duration = 1

\* the joined fact rows of the group of row r of the last call
FactsOf(r) ==
    {j \in JoinedRows(warehouse, app.last.key.fn) :
        /\ Where(app.last.key.fn, app.last.key.args, warehouse, j)
        /\ \A c \in DOMAIN r.key : Col(warehouse, j, c) = r.key[c]}

DistinctOrders(r) ==
    Cardinality({warehouse.fact_sales.rows[j.fact_sales].order_number :
                    j \in FactsOf(r)} \ {SqlNull})

\* C24: in the result of every query function total_orders of a group is the
\* number of distinct order numbers among the fact rows of the group, and
\* avg_order_value, where returned, is total_sales divided by that number, or
\* null when it is zero
C24_OrdersCountedOnce ==
    Fetched =>
        \A h \in 1..Len(app.last.value.df) :
            LET r == app.last.value.df[h]
            IN  /\ r.total_orders = DistinctOrders(r)
                /\ "avg_order_value" \in DOMAIN r =>
                      r.avg_order_value =
                          Quotient(r.total_sales, DistinctOrders(r))

\* the first call of the session was a call of fn
Called(fn) == app.calls = 1 /\ app.last.key.fn = fn

\* the sum of column c over the rows of year y of the frame df
RECURSIVE YearTotal(_, _, _)
YearTotal(df, y, c) ==
    IF df = <<>> THEN 0
    ELSE (IF Head(df).key.year = y THEN Head(df)[c] ELSE 0)
             + YearTotal(Tail(df), y, c)

\* what rollup_sales_by_year returns on the warehouse as it is
RollupByYear == run_query("rollup_sales_by_year", NoArgs, app.engine, warehouse)

\* the months of drilldown_year_to_month(y) add up to the year y of
\* rollup_sales_by_year
MonthsAddUp ==
    Called("drilldown_year_to_month") =>
        \A up \in RollupByYear, c \in {"total_sales", "total_quantity"} :
            YearTotal(app.last.value.df, app.last.key.args.year, c)
                = YearTotal(up.df, app.last.key.args.year, c)

\* the quarters of each year of rollup_sales_by_quarter add up to that year
\* of rollup_sales_by_year
QuartersAddUp ==
    Called("rollup_sales_by_quarter") =>
        \A up \in RollupByYear, c \in {"total_sales", "total_quantity"} :
            \A y \in {StarDates[i].year : i \in DOMAIN StarDates} :
                YearTotal(app.last.value.df, y, c) = YearTotal(up.df, y, c)

\* C25: on every warehouse and for every year the total_sales and the
\* total_quantity of the months drilldown_year_to_month returns, and those
\* of the quarters of the year in rollup_sales_by_quarter, add up to the
\* totals of the year in rollup_sales_by_year
C25_DrilldownAddsUpToRollup == MonthsAddUp /\ QuartersAddUp

\* the filter list of each filtered column
FilterOf ==
    [year |-> "years", category |-> "categories", city |-> "cities",
     courier_name |-> "couriers"]

\* the group key k lies in every non-empty filter list of the last call
Passes(k) ==
    \A c \in DOMAIN FilterOf :
        \/ app.last.key.args[FilterOf[c]] = {}
        \/ k[c] \in app.last.key.args[FilterOf[c]]

\* the group key of the joined fact row j in the last call
KeyOf(j) == [c \in GroupBy(app.last.key.fn) |-> Col(warehouse, j, c)]

\* C28: each row dice_multi_dimension returns lies in every non-empty filter
\* list, an empty list restricts nothing, and the group of every fact row
\* that passes all the filters is in the result (the groups being fewer
\* than the row limit)
C28_DiceFilters ==
    Called("dice_multi_dimension") \/ Called("olap_dice_multi_dimension") =>
        /\ \A h \in 1..Len(app.last.value.df) :
              Passes(app.last.value.df[h].key)
        /\ \A j \in JoinedRows(warehouse, app.last.key.fn) :
              Passes(KeyOf(j)) =>
                  \E h \in 1..Len(app.last.value.df) :
                      app.last.value.df[h].key = KeyOf(j)

\* the pages of the last paginated dice, from page 0 on
Pages == app.last.pages

LastPage == CHOOSE n \in DOMAIN Pages : \A p \in DOMAIN Pages : p <= n

\* the number of the pages 1 .. LastPage that hold the group row r
TimesShown(r) ==
    Cardinality({<<p, h>> \in (1..LastPage) \X (1..app.last.key.args.page_size) :
                    h <= Len(Pages[p].df) /\ Pages[p].df[h] = r})

\* C30: with fixed filters and page size over one warehouse the paginated
\* dice_multi_dimension answers page 0 as it answers page 1, reports one
\* total_rows on every page, and its pages 1 .. ceil(total_rows/page_size)
\* hold every group row exactly once, groups of equal total_sales included
C30_PagesPartitionTheGroups ==
    DOMAIN Pages # {} =>
        /\ Pages[0] \in run_query("dice_multi_dimension", app.last.key.args,
                                   app.engine, warehouse)
        /\ \A p \in DOMAIN Pages : Pages[p].total_rows = Pages[1].total_rows
        /\ \A r \in GroupRows("dice_multi_dimension", app.last.key.args,
                               warehouse) :
              TimesShown(r) = 1

\* the dashboard has called a query function since the engine and the
\* warehouse last changed
Answered == app.last.key.fn # "none"

\* C26: whatever was called before, a call of a query function with engine
\* None, or one whose statement fails, returns an empty frame and the
\* duration 0.0
C26_NoEngineOrFailureGivesEmpty ==
    /\ Answered
    /\ \/ app.engine = "none"
       \/ app.engine = "broken" /\ ~app.last.hit
    => app.last.value.df = <<>> /\ app.last.value.duration = 0

\* C27: under every interleaving of queries, reloads of the warehouse,
\* failures and changes of engine a cached query function returns what the
\* same call returns when executed without a cache
C27_CacheUnobservable ==
    Answered =>
        app.last.value \in run_query(app.last.key.fn, app.last.key.args,
                                     app.engine, warehouse)

====
